---- MODULE Spec2Model ----
(***************************************************************************)
(* Model of the bedrock-proxy translation and streaming relay engine:      *)
(*   src/src/handlers.rs   frame extractor and the request handlers        *)
(*   src/src/transform.rs  payload normalizer and schema mappers           *)
(*   src/src/main.rs       the earlier single-file raw handlers            *)
(*                                                                         *)
(* Text is a sequence of symbols.  The symbols "{", "}", the double quote  *)
(* and the backslash are the characters the brace scanner reacts to; every *)
(* other symbol stands for a run of characters none of which is one of     *)
(* these four (a word, a number, a base64 string, binary framing bytes).   *)
(* A symbol counts as one position of the text.                            *)
(***************************************************************************)
EXTENDS Integers, Sequences, FiniteSets, TLC

(***************************************************************************)
(* JSON values (serde_json::Value).  A JSON string is its sequence of      *)
(* symbols; an object is a function from keys (strings) to values.         *)
(***************************************************************************)
EmptyMap == [k \in {} |-> 0]

JNull == [t |-> "null", v |-> 0]

JStr(s) == [t |-> "str", v |-> s]

JNum(n) == [t |-> "num", v |-> n]

JObj(m) == [t |-> "obj", v |-> m]

JArr(a) == [t |-> "arr", v |-> a]

\* Option<T>: None and Some(x)
None == [some |-> FALSE, val |-> JNull]

Some(x) == [some |-> TRUE, val |-> x]

\* Value::get(key): Some(member) of an object that has the key, None otherwise
Get(val, key) ==
  IF val.t = "obj" /\ <<key>> \in DOMAIN val.v THEN Some(val.v[<<key>>]) ELSE None

\* Option<&Value>::and_then(Value::as_str)
AsStr(opt) ==
  IF opt.some /\ opt.val.t = "str" THEN [some |-> TRUE, val |-> opt.val.v]
  ELSE [some |-> FALSE, val |-> <<>>]

\* Map::insert: the map with key bound to val (an existing binding is replaced)
MapInsert(m, key, val) ==
  [k \in (DOMAIN m) \cup {<<key>>} |-> IF k = <<key>> THEN val ELSE m[k]]

\* Map::remove
MapRemove(m, key) == [k \in (DOMAIN m) \ {<<key>>} |-> m[k]]

(***************************************************************************)
(* serde_json::from_str on a text: strings with the escapes \" and \\,     *)
(* objects, arrays, numbers and null.  Any other symbol outside a string, an       *)
(* unterminated string or object, a missing colon or comma, or text left   *)
(* after the value is a parse error.                                       *)
(***************************************************************************)
NumWords == {"1", "7", "50", "200"}

Fail == [ok |-> FALSE, val |-> JNull, next |-> 0]

RECURSIVE StrBody(_, _, _)
\* the characters of a string literal whose opening quote precedes position i
StrBody(s, i, acc) ==
  IF i > Len(s) THEN [ok |-> FALSE, val |-> <<>>, next |-> 0]
  ELSE IF s[i] = "\"" THEN [ok |-> TRUE, val |-> acc, next |-> i + 1]
  ELSE IF s[i] = "\\"
    THEN IF i + 1 <= Len(s) /\ s[i + 1] \in {"\"", "\\"}
         THEN StrBody(s, i + 2, Append(acc, s[i + 1]))
         ELSE [ok |-> FALSE, val |-> <<>>, next |-> 0]
  ELSE StrBody(s, i + 1, Append(acc, s[i]))

RECURSIVE ParseValue(_, _), ParseMembers(_, _, _, _), ParseItems(_, _, _, _)
ParseValue(s, i) ==
  IF i > Len(s) THEN Fail
  ELSE IF s[i] = "\""
    THEN LET r == StrBody(s, i + 1, <<>>)
         IN  IF r.ok THEN [ok |-> TRUE, val |-> JStr(r.val), next |-> r.next] ELSE Fail
  ELSE IF s[i] = "{" THEN ParseMembers(s, i + 1, EmptyMap, TRUE)
  ELSE IF s[i] = "[" THEN ParseItems(s, i + 1, <<>>, TRUE)
  ELSE IF s[i] \in NumWords THEN [ok |-> TRUE, val |-> JNum(s[i]), next |-> i + 1]
  ELSE IF s[i] = "null" THEN [ok |-> TRUE, val |-> JNull, next |-> i + 1]
  ELSE Fail

ParseMembers(s, i, m, first) ==
  IF i > Len(s) THEN Fail
  ELSE IF first /\ s[i] = "}" THEN [ok |-> TRUE, val |-> JObj(m), next |-> i + 1]
  ELSE IF s[i] # "\"" THEN Fail
  ELSE LET k == StrBody(s, i + 1, <<>>)
       IN  IF ~k.ok \/ k.next > Len(s) \/ s[k.next] # ":" THEN Fail
           ELSE LET e == ParseValue(s, k.next + 1)
                IN  IF ~e.ok \/ e.next > Len(s) THEN Fail
                    ELSE LET m2 == [x \in (DOMAIN m) \cup {k.val} |->
                                      IF x = k.val THEN e.val ELSE m[x]]
                         IN  IF s[e.next] = "}"
                               THEN [ok |-> TRUE, val |-> JObj(m2), next |-> e.next + 1]
                             ELSE IF s[e.next] = ","
                               THEN ParseMembers(s, e.next + 1, m2, FALSE)
                             ELSE Fail

\* the items of an array whose opening bracket precedes position i
ParseItems(s, i, acc, first) ==
  IF i > Len(s) THEN Fail
  ELSE IF first /\ s[i] = "]" THEN [ok |-> TRUE, val |-> JArr(acc), next |-> i + 1]
  ELSE LET e == ParseValue(s, i)
       IN  IF ~e.ok \/ e.next > Len(s) THEN Fail
           ELSE IF s[e.next] = "]"
             THEN [ok |-> TRUE, val |-> JArr(Append(acc, e.val)), next |-> e.next + 1]
           ELSE IF s[e.next] = ","
             THEN ParseItems(s, e.next + 1, Append(acc, e.val), FALSE)
           ELSE Fail

\* serde_json::from_str::<Value>: Ok(value) when the whole text is one JSON value
FromStr(s) ==
  LET r == ParseValue(s, 1)
  IN  IF r.ok /\ r.next = Len(s) + 1 THEN Some(r.val) ELSE None

(***************************************************************************)
(* The backend event texts used as inputs, and base64 over them.  The      *)
(* encoded form of a text is one symbol, spelled as its real base64.       *)
(***************************************************************************)
Q == "\""

Str(w) == <<Q, w, Q>>

TextStop == <<"{">> \o Str("type") \o <<":">> \o Str("message_stop") \o <<"}">>

TextStart == <<"{">> \o Str("type") \o <<":">> \o Str("message_start") \o <<"}">>

TextDelta(w) ==
  <<"{">> \o Str("type") \o <<":">> \o Str("content_block_delta") \o <<",">>
    \o Str("delta") \o <<":", "{">> \o Str("text") \o <<":">> \o Str(w)
    \o <<"}", "}">>

TextDeltaNoText ==
  <<"{">> \o Str("type") \o <<":">> \o Str("content_block_delta") \o <<",">>
    \o Str("delta") \o <<":", "{", "}", "}">>

TextPing == <<"{">> \o Str("type") \o <<":">> \o Str("ping") \o <<"}">>

TextNotJson == <<"oops">>

TextBadUtf8 == <<"\\xff">>

\* <<decoded bytes, base64 string>>
B64Table ==
  { <<TextStop, "eyJ0eXBlIjoibWVzc2FnZV9zdG9wIn0=">>,
    <<TextStart, "eyJ0eXBlIjoibWVzc2FnZV9zdGFydCJ9">>,
    <<TextDelta("hi"), "eyJ0eXBlIjoiY29udGVudF9ibG9ja19kZWx0YSIsImRlbHRhIjp7InRleHQiOiJoaSJ9fQ==">>,
    <<TextDelta("yo"), "eyJ0eXBlIjoiY29udGVudF9ibG9ja19kZWx0YSIsImRlbHRhIjp7InRleHQiOiJ5byJ9fQ==">>,
    <<TextDeltaNoText, "eyJ0eXBlIjoiY29udGVudF9ibG9ja19kZWx0YSIsImRlbHRhIjp7fX0=">>,
    <<TextPing, "eyJ0eXBlIjoicGluZyJ9">>,
    <<TextNotJson, "b29wcw==">>,
    <<TextBadUtf8, "/w==">> }

B64Encode(bytes) == (CHOOSE p \in B64Table : p[1] = bytes)[2]

\* BASE64_STANDARD.decode: the bytes of a valid base64 string, an error otherwise
\* (a string of several symbols holds a quote, a backslash or a brace, or is no
\* base64 word of the table: not valid base64)
B64Decode(str) ==
  IF str = <<>> THEN [ok |-> TRUE, bytes |-> <<>>]
  ELSE IF Len(str) = 1 /\ \E p \in B64Table : p[2] = str[1]
    THEN [ok |-> TRUE, bytes |-> (CHOOSE p \in B64Table : p[2] = str[1])[1]]
  ELSE [ok |-> FALSE, bytes |-> <<>>]

\* String::from_utf8: an error when the bytes hold an invalid sequence
FromUtf8(bytes) ==
  IF \E i \in 1..Len(bytes) : bytes[i] = "\\xff" THEN [ok |-> FALSE, text |-> <<>>]
  ELSE [ok |-> TRUE, text |-> bytes]

\* the outer envelope {"bytes":"<base64 of text>"} of a frame
Envelope(text) ==
  <<"{">> \o Str("bytes") \o <<":">> \o Str(B64Encode(text)) \o <<"}">>

(***************************************************************************)
(* Frame Extractor: extract_json_from_bedrock_chunk (handlers.rs 26-86).   *)
(* Offsets are 0-based as in the source: the character at offset k of a    *)
(* text is text[k + 1].  -1 stands for None where an offset is expected.   *)
(***************************************************************************)
RECURSIVE FindBrace(_, _)
\* chunk_text[start_idx..].find('{'), as an offset of chunk_text
FindBrace(chunk_text, start_idx) ==
  IF start_idx >= Len(chunk_text) THEN -1
  ELSE IF chunk_text[start_idx + 1] = "{" THEN start_idx
  ELSE FindBrace(chunk_text, start_idx + 1)

RECURSIVE ScanEndMutant(_, _, _, _, _, _)
ScanEndMutant(chunk_text, actual_start, i, brace_count, in_string, escaped) ==
  IF actual_start + i >= Len(chunk_text) THEN -1
  ELSE LET c == chunk_text[actual_start + i + 1]
       IN  IF escaped
             THEN ScanEndMutant(chunk_text, actual_start, i + 1, brace_count, in_string, FALSE)
           ELSE IF c = "\\"
             THEN ScanEndMutant(chunk_text, actual_start, i + 1, brace_count, in_string, TRUE)
           ELSE IF c = "\""
             THEN ScanEndMutant(chunk_text, actual_start, i + 1, brace_count, ~in_string, FALSE)
           ELSE IF c = "{" /\ ~in_string
             THEN ScanEndMutant(chunk_text, actual_start, i + 1, brace_count + 1, in_string, FALSE)
           ELSE IF c = "}" /\ ~in_string
             THEN IF brace_count - 1 = 0 THEN actual_start + i + 1
                  ELSE ScanEndMutant(chunk_text, actual_start, i + 1, brace_count - 1,
                                     in_string, FALSE)
           ELSE ScanEndMutant(chunk_text, actual_start, i + 1, brace_count, in_string, FALSE)

RECURSIVE ScanEnd(_, _, _, _, _, _)
\* the for loop over chunk_text[actual_start..].char_indices(): json_end
ScanEnd(chunk_text, actual_start, i, brace_count, in_string, escaped) ==
  IF actual_start + i >= Len(chunk_text) THEN -1
  ELSE LET c == chunk_text[actual_start + i + 1]
       IN  IF escaped
             THEN ScanEnd(chunk_text, actual_start, i + 1, brace_count, in_string, FALSE)
           ELSE IF c = "\\" /\ in_string
             THEN ScanEnd(chunk_text, actual_start, i + 1, brace_count, in_string, TRUE)
           ELSE IF c = "\""
             THEN ScanEnd(chunk_text, actual_start, i + 1, brace_count, ~in_string, FALSE)
           ELSE IF c = "{" /\ ~in_string
             THEN ScanEnd(chunk_text, actual_start, i + 1, brace_count + 1, in_string, FALSE)
           ELSE IF c = "}" /\ ~in_string
             THEN IF brace_count - 1 = 0 THEN actual_start + i + 1
                  ELSE ScanEnd(chunk_text, actual_start, i + 1, brace_count - 1,
                               in_string, FALSE)
           ELSE ScanEnd(chunk_text, actual_start, i + 1, brace_count, in_string, FALSE)

\* lines 72-73: the decoded text parsed as JSON is the event returned
DecodeText(decoded_str) ==
  IF decoded_str.ok THEN FromStr(decoded_str.text) ELSE None

\* lines 69-70: the base64 bytes as UTF-8
DecodeBytes(decoded_bytes) ==
  IF decoded_bytes.ok THEN DecodeText(FromUtf8(decoded_bytes.bytes)) ELSE None

\* line 67: the "bytes" member, when it is a string
DecodeBase64(bytes_b64) ==
  IF bytes_b64.some THEN DecodeBytes(B64Decode(bytes_b64.val)) ELSE None

\* line 66: the candidate parsed as JSON
DecodeData(chunk_data) ==
  IF chunk_data.some THEN DecodeBase64(AsStr(Get(chunk_data.val, "bytes"))) ELSE None

\* the matched candidate chunk_text[actual_start..end] decoded: from_str, the
\* "bytes" string, base64, UTF-8, from_str again; None when any stage fails
DecodeCandidate(json_str) == DecodeData(FromStr(json_str))

IterationDecodedMutant(start_idx, end, bedrock_json) ==
  IF bedrock_json.some
    THEN [kind |-> "return", start_idx |-> start_idx, result |-> bedrock_json]
  ELSE [kind |-> "continue", start_idx |-> start_idx, result |-> None]

\* lines 72-79: return the decoded event, or go on scanning from end
IterationDecoded(start_idx, end, bedrock_json) ==
  IF bedrock_json.some
    THEN [kind |-> "return", start_idx |-> start_idx, result |-> bedrock_json]
  ELSE [kind |-> "continue", start_idx |-> end, result |-> None]

IterationEndMutant(chunk_text, start_idx, actual_start, end) ==
  IF end = -1 THEN [kind |-> "break", start_idx |-> start_idx, result |-> None]
  ELSE IterationDecoded(start_idx, end,
         DecodeCandidate(SubSeq(chunk_text, actual_start + 1, end - 1)))

\* lines 62-82: with json_end found the candidate is decoded, without it break
IterationEnd(chunk_text, start_idx, actual_start, end) ==
  IF end = -1 THEN [kind |-> "break", start_idx |-> start_idx, result |-> None]
  ELSE IterationDecoded(start_idx, end,
         DecodeCandidate(SubSeq(chunk_text, actual_start + 1, end)))

\* lines 32-60: no '{' ends the loop; from a '{' the braces are counted
IterationStart(chunk_text, start_idx, actual_start) ==
  IF actual_start = -1
    THEN [kind |-> "exhausted", start_idx |-> start_idx, result |-> None]
  ELSE IterationEnd(chunk_text, start_idx, actual_start,
         ScanEnd(chunk_text, actual_start, 0, 0, FALSE, FALSE))

\* one iteration of the while loop, entered with start_idx
ScanIteration(chunk_text, start_idx) ==
  IterationStart(chunk_text, start_idx, FindBrace(chunk_text, start_idx))

RECURSIVE ExtractLoop(_, _)
\* the loop goes on after "continue" and returns after anything else
ExtractAfter(chunk_text, it) ==
  IF it.kind = "continue" THEN ExtractLoop(chunk_text, it.start_idx) ELSE it.result

ExtractLoop(chunk_text, start_idx) ==
  ExtractAfter(chunk_text, ScanIteration(chunk_text, start_idx))

extract_json_from_bedrock_chunk(chunk_text) == ExtractLoop(chunk_text, 0)

(***************************************************************************)
(* Streaming Inbound Mapper: bedrock_chunk_to_openai (transform.rs         *)
(* 303-341).  A chunk is its choice's delta and finish_reason with the     *)
(* fixed object and model fields; the fresh id and the timestamp of a      *)
(* chunk are left out of the model.                                        *)
(***************************************************************************)
NoFinish == "null"

StreamChunk(model, delta, finish_reason) ==
  [object |-> "chat.completion.chunk", model |-> model, index |-> 0,
   delta |-> delta, finish_reason |-> finish_reason]

NoChunk == [some |-> FALSE, val |-> StreamChunk("", EmptyMap, NoFinish)]

\* the delta map built by the match on the event type
ChunkDelta(chunk) ==
  LET type == AsStr(Get(chunk, "type"))
  IN  IF type.some /\ type.val = <<"message_start">>
        THEN MapInsert(EmptyMap, "role", JStr(<<"assistant">>))
      ELSE IF type.some /\ type.val = <<"content_block_delta">>
        THEN LET delta == Get(chunk, "delta")
                 text == AsStr(IF delta.some THEN Get(delta.val, "text") ELSE None)
             IN  IF text.some THEN MapInsert(EmptyMap, "content", JStr(text.val))
                 ELSE EmptyMap
      ELSE EmptyMap

\* the finish_reason set by the match on the event type
ChunkFinishReason(chunk) ==
  LET type == AsStr(Get(chunk, "type"))
  IN  IF type.some /\ type.val = <<"message_stop">> THEN "stop" ELSE NoFinish

ChunkOfMutant(delta, finish_reason) ==
  [some |-> TRUE, val |-> StreamChunk("claude-via-bedrock", delta, finish_reason)]

\* lines 326-340: nothing for an empty delta without finish reason
ChunkOf(delta, finish_reason) ==
  IF delta = EmptyMap /\ finish_reason = NoFinish THEN NoChunk
  ELSE [some |-> TRUE, val |-> StreamChunk("claude-via-bedrock", delta, finish_reason)]

bedrock_chunk_to_openai(chunk) == ChunkOf(ChunkDelta(chunk), ChunkFinishReason(chunk))

(***************************************************************************)
(* Request Normalizer: transform_payload (transform.rs 95-115, and the     *)
(* same function in main.rs 137-161).  The result is the returned value,   *)
(* or a panic: indexing a value that is neither an object nor null with a  *)
(* string key for assignment panics.                                       *)
(***************************************************************************)
DefaultMaxTokensMutant == JNum("7")

\* json!(200), the max_tokens of a rewritten prompt without max_tokens_to_sample
DefaultMaxTokens == JNum("200")

\* Option::is_some of Value::get
Has(val, key) == Get(val, key).some

\* lines 96-101: a string prompt rewrites the whole document
PromptRewrite(payload) ==
  LET prompt == AsStr(Get(payload, "prompt"))
  IN  IF prompt.some
        THEN JObj(MapInsert(
               MapInsert(EmptyMap, "messages",
                 JArr(<< JObj(MapInsert(MapInsert(EmptyMap, "role", JStr(<<"user">>)),
                                        "content", JStr(prompt.val))) >>)),
               "max_tokens",
               IF Has(payload, "max_tokens_to_sample")
                 THEN Get(payload, "max_tokens_to_sample").val
                 ELSE DefaultMaxTokens))
      ELSE payload

RenameMaxTokensMutant(payload) ==
  IF Has(payload, "max_tokens_to_sample") /\ ~Has(payload, "max_tokens")
    THEN JObj(MapInsert(payload.v, "max_tokens", Get(payload, "max_tokens_to_sample").val))
  ELSE payload

\* lines 103-111: max_tokens_to_sample renamed to max_tokens
RenameMaxTokens(payload) ==
  IF Has(payload, "max_tokens_to_sample") /\ ~Has(payload, "max_tokens")
    THEN JObj(MapRemove(
           MapInsert(payload.v, "max_tokens", Get(payload, "max_tokens_to_sample").val),
           "max_tokens_to_sample"))
  ELSE payload

Returned(val) == [panic |-> FALSE, val |-> val]

Panicked == [panic |-> TRUE, val |-> JNull]

\* line 113: payload["anthropic_version"] = ...; null becomes an object, and
\* a value that is neither null nor an object panics
SetVersion(payload) ==
  IF payload.t = "obj"
    THEN Returned(JObj(MapInsert(payload.v, "anthropic_version",
                                 JStr(<<"bedrock-2023-05-31">>))))
  ELSE IF payload.t = "null"
    THEN Returned(JObj(MapInsert(EmptyMap, "anthropic_version",
                                 JStr(<<"bedrock-2023-05-31">>))))
  ELSE Panicked

transform_payload(payload) == SetVersion(RenameMaxTokens(PromptRewrite(payload)))

(***************************************************************************)
(* serde_json's compact serialization (Value::to_string, to_string): the   *)
(* text of a value.  Quotes and backslashes inside a string are escaped;   *)
(* the members of an object are written in the order of their keys.        *)
(***************************************************************************)
\* the keys of the model's objects, in the order of the map's iteration
SortedKeys ==
  << <<"a">>, <<"anthropic_version">>, <<"arguments">>, <<"b">>, <<"bytes">>,
     <<"city">>, <<"content">>, <<"delta">>, <<"function">>, <<"id">>, <<"index">>,
     <<"input">>, <<"max_tokens">>, <<"max_tokens_to_sample">>, <<"messages">>,
     <<"name">>, <<"prompt">>, <<"role">>, <<"system">>, <<"temperature">>,
     <<"text">>, <<"tool_calls">>, <<"tool_use_id">>, <<"type">> >>

RECURSIVE Escaped(_)
\* the characters of a string as written between the quotes
Escaped(str) ==
  IF str = <<>> THEN <<>>
  ELSE (IF Head(str) \in {"\"", "\\"} THEN <<"\\", Head(str)>> ELSE <<Head(str)>>)
         \o Escaped(Tail(str))

RECURSIVE to_string(_), MembersToString(_, _, _), ItemsToString(_, _)
to_string(val) ==
  CASE val.t = "str" -> <<"\"">> \o Escaped(val.v) \o <<"\"">>
    [] val.t = "num" -> <<val.v>>
    [] val.t = "null" -> <<"null">>
    [] val.t = "obj" -> <<"{">> \o MembersToString(val.v, 1, TRUE) \o <<"}">>
    [] val.t = "arr" -> <<"[">> \o ItemsToString(val.v, 1) \o <<"]">>

\* the members of the map m whose keys are at SortedKeys[i..]
MembersToString(m, i, first) ==
  IF i > Len(SortedKeys) THEN <<>>
  ELSE IF SortedKeys[i] \in DOMAIN m
    THEN (IF first THEN <<>> ELSE <<",">>)
           \o <<"\"">> \o Escaped(SortedKeys[i]) \o <<"\"", ":">>
           \o to_string(m[SortedKeys[i]])
           \o MembersToString(m, i + 1, FALSE)
  ELSE MembersToString(m, i + 1, first)

ItemsToString(a, i) ==
  IF i > Len(a) THEN <<>>
  ELSE (IF i = 1 THEN <<>> ELSE <<",">>) \o to_string(a[i]) \o ItemsToString(a, i + 1)

(***************************************************************************)
(* Outbound Schema Mapper: openai_to_bedrock (transform.rs 120-209).       *)
(* An OpenAIMessage is [role, content, tool_calls, tool_call_id]; content  *)
(* is an Option<Value>, tool_calls an Option of a sequence of ToolCall,    *)
(* tool_call_id an Option<String>.                                         *)
(***************************************************************************)
NoString == [some |-> FALSE, val |-> <<>>]

SomeString(str) == [some |-> TRUE, val |-> str]

NoToolCalls == [some |-> FALSE, val |-> <<>>]

OpenAIMessage(role, content, tool_calls, tool_call_id) ==
  [role |-> role, content |-> content, tool_calls |-> tool_calls,
   tool_call_id |-> tool_call_id]

\* json!({..}) of two and of three members
Object2(k1, v1, k2, v2) == JObj(MapInsert(MapInsert(EmptyMap, k1, v1), k2, v2))

Object3(k1, v1, k2, v2, k3, v3) == JObj(MapInsert(Object2(k1, v1, k2, v2).v, k3, v3))

\* lines 128-133: the text pushed to system_prompts for one system content
SystemText(c) == IF c.t = "str" THEN c.v ELSE to_string(c)

RECURSIVE SystemPrompts(_)
\* lines 127-134: system_prompts after the iteration over the messages
SystemPrompts(messages) ==
  IF messages = <<>> THEN <<>>
  ELSE (IF Head(messages).role = "system" /\ Head(messages).content.some
          THEN <<SystemText(Head(messages).content.val)>> ELSE <<>>)
         \o SystemPrompts(Tail(messages))

RECURSIVE Join(_, _)
\* [String]::join(sep)
Join(strs, sep) ==
  IF strs = <<>> THEN <<>>
  ELSE IF Len(strs) = 1 THEN strs[1]
  ELSE strs[1] \o sep \o Join(Tail(strs), sep)

ContentOrEmptyMutant(m) == IF m.content.some THEN m.content.val ELSE JNull

\* m.content.clone().unwrap_or(Value::String("".to_string()))
ContentOrEmpty(m) == IF m.content.some THEN m.content.val ELSE JStr(<<>>)

\* Option<&str>::unwrap_or
StrOr(opt, default) == IF opt.some THEN opt.val ELSE default

\* Option<&Value>::unwrap_or
ValueOr(opt, default) == IF opt.some THEN opt.val ELSE default

\* lines 147-153: the tool_use block of the "function" member func of tc
ToolUseBlockOf(tc, func) ==
  JObj(MapInsert(
    Object3("type", JStr(<<"tool_use">>),
            "id", JStr(StrOr(AsStr(Get(tc, "id")), <<"tool_call_1">>)),
            "name", JStr(StrOr(AsStr(Get(func, "name")), <<"unknown_tool">>))).v,
    "input", ValueOr(Get(func, "arguments"), JObj(EmptyMap))))

\* lines 144-154: the closure mapped over tool_calls_array
ToolUseBlock(tc) == ToolUseBlockOf(tc, ValueOr(Get(tc, "function"), JObj(EmptyMap)))

\* lines 139-155: as_array().unwrap_or(&default_tool_calls), mapped to blocks
ToolUseContents(tool_calls) ==
  IF tool_calls.t = "arr"
    THEN [i \in 1..Len(tool_calls.v) |-> ToolUseBlock(tool_calls.v[i])]
  ELSE <<>>

\* lines 135-172: an assistant message; the tool calls are looked for in an
\* object-valued content, under its key "tool_calls"
AssistantMessage(m) ==
  IF m.content.some /\ Has(m.content.val, "tool_calls")
    THEN Object2("role", JStr(<<"assistant">>),
                 "content", JArr(ToolUseContents(Get(m.content.val, "tool_calls").val)))
  ELSE Object2("role", JStr(<<"assistant">>), "content", ContentOrEmpty(m))

ToolMessageMutant(m) ==
  Object2("role", JStr(<<"user">>),
          "content", JArr(<< Object3("type", JStr(<<"tool_result">>),
                                     "tool_use_id", JStr(m.tool_call_id.val),
                                     "content", ContentOrEmpty(m)) >>))

\* lines 173-181: a tool message becomes a user message with one tool_result
ToolMessage(m) ==
  Object2("role", JStr(<<"user">>),
          "content", JArr(<< Object3("type", JStr(<<"tool_result">>),
                                     "tool_use_id",
                                     JStr(StrOr(m.tool_call_id, <<"tool_call_1">>)),
                                     "content", ContentOrEmpty(m)) >>))

\* lines 126-188: the closure of filter_map on a message that is not dropped
BackendMessage(m) ==
  IF m.role = "assistant" THEN AssistantMessage(m)
  ELSE IF m.role = "tool" THEN ToolMessage(m)
  ELSE Object2("role", JStr(<<m.role>>), "content", ContentOrEmpty(m))

NotSystem(m) == m.role # "system"

\* the messages of the sequence kept, mapped
MappedMessages(kept) == [i \in 1..Len(kept) |-> BackendMessage(kept[i])]

\* lines 123-189: filter_map drops the system messages and maps the others
BackendMessages(messages) == MappedMessages(SelectSeq(messages, NotSystem))

DefaultMaxOutputTokens == JNum("512")

DefaultTemperature == JNum("0.7")

\* lines 197-202: the payload before the system field
BasePayload(req) ==
  JObj(MapInsert(MapInsert(
    Object2("anthropic_version", JStr(<<"bedrock-2023-05-31">>),
            "messages", JArr(BackendMessages(req.messages))).v,
    "max_tokens", ValueOr(req.max_tokens, DefaultMaxOutputTokens)),
    "temperature", ValueOr(req.temperature, DefaultTemperature)))

SystemSeparatorMutant == <<"\\n">>

\* the separator of join("\n\n"), one symbol
SystemSeparator == <<"\\n\\n">>

\* lines 191-206: the system field is set when system_prompts is not empty
WithSystem(base, system_prompts) ==
  IF system_prompts # <<>>
    THEN JObj(MapInsert(base.v, "system", JStr(Join(system_prompts, SystemSeparator))))
  ELSE base

openai_to_bedrock(req) == WithSystem(BasePayload(req), SystemPrompts(req.messages))

(***************************************************************************)
(* Non-streaming Inbound Mapper: bedrock_to_openai (transform.rs 214-298). *)
(* The fresh id and the timestamp of a response are left out of the model. *)
(*                                                                         *)
(* A token count is a 64-bit integer written as its four 16-bit limbs,     *)
(* lowest first, in two's complement; an i32 is the two lowest limbs.      *)
(***************************************************************************)
\* the integers that occur as JSON numbers in the model, with their limbs
NumberTable ==
  { <<"0", <<0, 0, 0, 0>>>>, <<"1", <<1, 0, 0, 0>>>>, <<"7", <<7, 0, 0, 0>>>>,
    <<"50", <<50, 0, 0, 0>>>>, <<"200", <<200, 0, 0, 0>>>>,
    <<"512", <<512, 0, 0, 0>>>>,
    <<"2147483647", <<65535, 32767, 0, 0>>>>,
    <<"2147483648", <<0, 32768, 0, 0>>>>,
    <<"4294967301", <<5, 0, 1, 0>>>> }

\* Option<&Value>::and_then(Value::as_i64): Some for an integer that fits i64
as_i64(opt) ==
  IF opt.some /\ opt.val.t = "num" /\ \E e \in NumberTable : e[1] = opt.val.v
    THEN [some |-> TRUE, val |-> (CHOOSE e \in NumberTable : e[1] = opt.val.v)[2]]
  ELSE [some |-> FALSE, val |-> <<0, 0, 0, 0>>]

\* Option<i64>::unwrap_or(0)
I64Or0(opt) == IF opt.some THEN opt.val ELSE <<0, 0, 0, 0>>

\* x as i32: the low 32 bits
AsI32(x) == <<x[1], x[2]>>

\* an i32 is negative when its top bit is set
Negative32(a) == a[2] >= 32768

\* a + b in i32, wrapped
WrappingAdd32(a, b) ==
  <<(a[1] + b[1]) % 65536, (a[2] + b[2] + ((a[1] + b[1]) \div 65536)) % 65536>>

\* a + b overflows i32: the operands have one sign and the wrapped sum the other
AddOverflows32(a, b) ==
  /\ Negative32(a) = Negative32(b)
  /\ Negative32(WrappingAdd32(a, b)) # Negative32(a)

\* Option<&Value>::and_then(|u| u.get(key))
GetIn(opt, key) == IF opt.some THEN Get(opt.val, key) ELSE None

\* lines 252-256: prompt_tokens
PromptTokens(resp) == AsI32(I64Or0(as_i64(GetIn(Get(resp, "usage"), "input_tokens"))))

\* lines 258-262: completion_tokens
CompletionTokens(resp) ==
  AsI32(I64Or0(as_i64(GetIn(Get(resp, "usage"), "output_tokens"))))

\* lines 264, 292-296: OpenAIUsage, total_tokens as the build without overflow
\* checks computes it
OpenAIUsage(prompt_tokens, completion_tokens) ==
  [prompt_tokens |-> prompt_tokens, completion_tokens |-> completion_tokens,
   total_tokens |-> WrappingAdd32(prompt_tokens, completion_tokens)]

\* line 264 in a build with overflow checks: the addition panics
TotalPanics(resp) == AddOverflows32(PromptTokens(resp), CompletionTokens(resp))

\* Option<&Value>::and_then(Value::as_array)
AsArray(opt) ==
  IF opt.some /\ opt.val.t = "arr" THEN [some |-> TRUE, val |-> opt.val.v]
  ELSE [some |-> FALSE, val |-> <<>>]

\* block.get("type").and_then(|t| t.as_str()) == Some(ty)
BlockTypeIs(block, ty) == AsStr(Get(block, "type")) = SomeString(<<ty>>)

\* lines 223-227: a text block with a string text sets message_content
IsTextBlock(block) == BlockTypeIs(block, "text") /\ AsStr(Get(block, "text")).some

RECURSIVE MessageContentMutant(_, _)
MessageContentMutant(blocks, acc) ==
  IF blocks = <<>> THEN acc
  ELSE MessageContentMutant(Tail(blocks),
         IF IsTextBlock(Head(blocks)) /\ ~acc.some
           THEN Some(JStr(AsStr(Get(Head(blocks), "text")).val)) ELSE acc)

RECURSIVE MessageContent(_, _)
\* message_content after the loop over the blocks, from the value acc
MessageContent(blocks, acc) ==
  IF blocks = <<>> THEN acc
  ELSE MessageContent(Tail(blocks),
         IF IsTextBlock(Head(blocks))
           THEN Some(JStr(AsStr(Get(Head(blocks), "text")).val)) ELSE acc)

\* lines 229-233: a tool_use block with a string id, a string name and an input
IsToolUseBlock(block) ==
  /\ BlockTypeIs(block, "tool_use")
  /\ AsStr(Get(block, "id")).some
  /\ AsStr(Get(block, "name")).some
  /\ Has(block, "input")

ToolCall(id, name, arguments) ==
  [id |-> id, type |-> "function",
   function |-> [name |-> name, arguments |-> arguments]]

ToolCallOfMutant(block) ==
  ToolCall(AsStr(Get(block, "id")).val, AsStr(Get(block, "name")).val, <<"{", "}">>)

\* lines 234-242: the ToolCall pushed for a tool_use block
ToolCallOf(block) ==
  ToolCall(AsStr(Get(block, "id")).val, AsStr(Get(block, "name")).val,
           to_string(Get(block, "input").val))

\* tool_calls after the loop over the blocks
ToolCallsOf(tool_uses) == [i \in 1..Len(tool_uses) |-> ToolCallOf(tool_uses[i])]

FinishReasonMutant(tool_calls) == "stop"

\* lines 217, 243
FinishReason(tool_calls) == IF tool_calls = <<>> THEN "stop" ELSE "tool_calls"

\* lines 266-298: the response built from message_content, tool_calls and usage
OpenAIResponse(model, message_content, tool_calls, usage) ==
  [object |-> "chat.completion",
   usage |-> usage,
   model |-> model,
   index |-> 0,
   message |-> OpenAIMessage("assistant", message_content,
                 IF tool_calls = <<>> THEN NoToolCalls
                 ELSE [some |-> TRUE, val |-> tool_calls],
                 NoString),
   finish_reason |-> FinishReason(tool_calls)]

\* lines 219-250 on the content array
ResponseOfBlocks(blocks, model, usage) ==
  OpenAIResponse(model, MessageContent(blocks, None),
                 ToolCallsOf(SelectSeq(blocks, IsToolUseBlock)), usage)

bedrock_to_openai(resp, model) ==
  ResponseOfBlocks(AsArray(Get(resp, "content")).val, model,
                   OpenAIUsage(PromptTokens(resp), CompletionTokens(resp)))

\* no response built yet
NoResponse == OpenAIResponse(<<>>, None, <<>>, OpenAIUsage(<<0, 0>>, <<0, 0>>))

(***************************************************************************)
(* Request Signer: sign_request (signing.rs 10-80, main.rs 58-134).  A     *)
(* header is a pair <<name, value>>, a value a text.  The signature is     *)
(* kept as the request it was computed over; the headers the signing       *)
(* library adds on its own account (date, security token, authorization)   *)
(* are its signing instructions.                                           *)
(***************************************************************************)
\* an http::Request<Vec<u8>>
HttpRequest(method, uri, headers, bytes) ==
  [method |-> method, uri |-> uri, headers |-> headers, body |-> bytes]

\* line 36: format!("bedrock-runtime.{}.amazonaws.com", state.region)
HostHeader(state) == <<"bedrock-runtime.", state.region, ".amazonaws.com">>

SentAcceptMutant(is_streaming) == <<"application/json">>

\* lines 43-47: the accept value of a streaming and of a non-streaming call
AcceptHeader(is_streaming) ==
  IF is_streaming THEN <<"application/vnd.amazon.eventstream">>
  ELSE <<"application/json">>

\* line 63: the accept value put on the request that is sent
SentAccept(is_streaming) == AcceptHeader(is_streaming)

\* lines 38-48: the headers handed to the signer
SignedHeaders(state, is_streaming) ==
  << <<"content-type", <<"application/json">>>>,
     <<"host", HostHeader(state)>>,
     <<"accept", AcceptHeader(is_streaming)>> >>

\* lines 50-55: SignableRequest::new over the method, the uri, the headers
\* above and the body of the request
Signable(req, state, is_streaming) ==
  HttpRequest(req.method, req.uri, SignedHeaders(state, is_streaming), req.body)

\* line 57: the headers the signing instructions add to a request
SigningInstructions(state) ==
  << <<"x-amz-date", <<"now">>>>, <<"authorization", <<"AWS4-HMAC-SHA256">>>> >>
    \o (IF state.session_token.some
          THEN << <<"x-amz-security-token", state.session_token.val>> >> ELSE <<>>)

\* lines 59-66: the request rebuilt from method, uri and body, with its own
\* content-type and accept headers and the signing instructions applied
SignedHttp(req, state, is_streaming) ==
  HttpRequest(req.method, req.uri,
              << <<"content-type", <<"application/json">>>>,
                 <<"accept", SentAccept(is_streaming)>> >>
                \o SigningInstructions(state),
              req.body)

\* lines 68-79: the reqwest::Request with the headers and the body of signed_http
Built(signed_http) ==
  HttpRequest(signed_http.method, signed_http.uri, signed_http.headers, signed_http.body)

\* the outcome of a successful sign_request: the request to send and the
\* request the signature was computed over
sign_request(req, state, is_streaming) ==
  [request |-> Built(SignedHttp(req, state, is_streaming)),
   signature |-> Signable(req, state, is_streaming)]

(***************************************************************************)
(* The streaming relay.  One streaming request runs through one of the     *)
(* three streaming handlers:                                               *)
(*   "chat"    openai_chat_completions_stream_handler (handlers.rs 358-458)*)
(*   "invoke"  invoke_stream_handler                  (handlers.rs 157-246)*)
(*   "raw"     invoke_stream_handler                  (main.rs 235-315)    *)
(* The backend is the environment: it decides whether the call fails, the  *)
(* status, the body, and each fragment of the response stream.             *)
(***************************************************************************)
VARIABLES
  handler,     \* which streaming handler serves the request
  model,       \* the request's model name (chat handler), "" otherwise
  pc,          \* the handler's position
  signed,      \* "pending", "ok" or "failed": the outcome of sign_request
  calls,       \* number of client.execute calls made for the request
  status,      \* status of the backend response, 0 before there is one
  body,        \* result of resp.text() on a non-2xx response
  reads,       \* the fragments read from the backend stream so far, in order
  sent_first,  \* the chat handler's flag of the same name
  events       \* the SSE events emitted to the client so far, in order

streamVars ==
  <<handler, model, pc, signed, calls, status, body, reads, sent_first, events>>

\* the Frame Extractor run on one fragment
VARIABLES
  pieces,      \* the pieces the fragment was built from
  chunk_text,  \* the extractor's argument
  start_idx,   \* the loop variable of the same name
  xpc,         \* "scan" in the loop, "done" after the return
  xresult      \* the returned Option<Value>

extractVars == <<pieces, chunk_text, start_idx, xpc, xresult>>

\* the streaming Inbound Mapper applied to one event
VARIABLES
  mfrag,        \* the fragment the event was extracted from, <<>> if none
  chunk,        \* the mapper's argument: Option<Value> of the extractor
  mpc,          \* "event" before the call, "mapped" after
  openai_chunk  \* the returned Option<OpenAIStreamResponse>

mapVars == <<mfrag, chunk, mpc, openai_chunk>>

\* the Request Normalizer applied to one request body
VARIABLES
  payload,     \* the request body
  npc,         \* "input" before the call, "done" after
  normalized   \* the outcome of transform_payload

normVars == <<payload, npc, normalized>>

\* the two schema mappers applied to one chat request and one backend response
VARIABLES
  openai_req,        \* the ChatRequest (OpenAIRequest)
  bedrock_payload,   \* the result of openai_to_bedrock
  bedrock_response,  \* the parsed body of the backend's answer
  openai_response,   \* the result of bedrock_to_openai
  cpc                \* "request", "outbound", "answered", "done"

chatVars == <<openai_req, bedrock_payload, bedrock_response, openai_response, cpc>>

\* a request served by a non-streaming handler uses handler, model, pc, signed,
\* calls and status of the streaming request, and
VARIABLES
  response     \* the HTTP response the handler returned, NoReply before

replyVars == <<response>>

\* the Request Signer applied to the request a handler built
VARIABLES
  app,          \* the process-wide AppState
  caller,       \* the handler that calls sign_request
  http_req,     \* the request the handler built
  signing,      \* the outcome of sign_request: request and signature
  spc           \* "sign" before the call, "signed" or "failed" after

signVars == <<app, caller, http_req, signing, spc>>

\* the client of the request, and a second request running concurrently
VARIABLES
  client,       \* "connected", or "gone" once the client has disconnected
  other         \* the state of the request that is not running now

clientVars == <<client, other>>

vars ==
  <<streamVars, extractVars, mapVars, normVars, chatVars, replyVars, signVars,
    clientVars>>

\* a step of one component leaves the variables of the others alone
StreamOnly == UNCHANGED <<clientVars, signVars, extractVars, mapVars, normVars, chatVars, replyVars>>

ExtractOnly == UNCHANGED <<clientVars, signVars, streamVars, mapVars, normVars, chatVars, replyVars>>

MapOnly == UNCHANGED <<clientVars, signVars, streamVars, extractVars, normVars, chatVars, replyVars>>

NormOnly == UNCHANGED <<clientVars, signVars, streamVars, extractVars, mapVars, chatVars, replyVars>>

ChatOnly == UNCHANGED <<clientVars, signVars, streamVars, extractVars, mapVars, normVars, replyVars>>

ReplyOnly == UNCHANGED <<clientVars, signVars, extractVars, mapVars, normVars, chatVars>>

SignOnly == UNCHANGED <<clientVars, streamVars, extractVars, mapVars, normVars, chatVars, replyVars>>

\* the longest backend stream, in fragments
MaxFragments == 3

Handlers == {"chat", "invoke", "raw"}

Models == {"claude-sonnet-4", "gpt-4o"}

Statuses == {200, 403, 500}

\* StatusCode::is_success
IsSuccess(st) == st >= 200 /\ st <= 299

\* the texts a drained error body can be
Bodies == {<<"denied">>, <<>>}

NoBody == [ok |-> FALSE, text |-> <<>>]

\* A fragment is a sequence of pieces: an envelope around a text, or raw bytes.
Env(text) == [kind |-> "env", text |-> text]

Raw(bytes) == [kind |-> "raw", text |-> bytes]

PieceBytes(p) == IF p.kind = "env" THEN Envelope(p.text) ELSE p.text

RECURSIVE FragmentBytes(_)
FragmentBytes(frag) ==
  IF frag = <<>> THEN <<>> ELSE PieceBytes(Head(frag)) \o FragmentBytes(Tail(frag))

\* the fragments the backend stream is made of
StreamFragments ==
  { <<Raw(<<"x">>)>>,
    <<Raw(<<"\\xff">>)>>,
    <<Env(TextStart)>>,
    <<Raw(<<"x">>), Env(TextDelta("hi"))>>,
    <<Env(TextDelta("yo")), Raw(<<"x", "}">>)>>,
    <<Env(TextStop)>>,
    <<Env(TextPing)>>,
    <<Env(TextDelta("hi")), Env(TextStop)>>,
    <<Env(TextPing), Env(TextDelta("yo"))>>,
    <<Raw(SubSeq(Envelope(TextStop), 1, 5))>>,
    <<Raw(SubSeq(Envelope(TextStop), 6, 9))>> }

\* String::from_utf8_lossy: an invalid byte becomes U+FFFD
FromUtf8Lossy(bytes) ==
  [i \in 1..Len(bytes) |-> IF bytes[i] = "\\xff" THEN "\\ufffd" ELSE bytes[i]]

\* An SSE event: Event::default().data(..).  src is not part of the event: it
\* records which read (1, 2, ..) a forwarded chunk came from, 0 for the rest.
Event(kind, st, text, data, src) ==
  [kind |-> kind, status |-> st, text |-> text, chunk |-> data, src |-> src]

SigningErrorEvent == Event("Signing error", 0, <<>>, NoChunk.val, 0)

RequestErrorEvent == Event("Request error", 0, <<>>, NoChunk.val, 0)

StatusErrorEvent(st, text) == Event("Error", st, text, NoChunk.val, 0)

StreamErrorEvent == Event("Stream error", 0, <<>>, NoChunk.val, 0)

ChunkEvent(data, src) == Event("chunk", 0, <<>>, data, src)

RawEvent(text, src) == Event("raw", 0, text, NoChunk.val, src)

DoneEvent == Event("[DONE]", 0, <<>>, NoChunk.val, 0)

\* the dummy chunk of lines 433-443
Placeholder(m) ==
  ChunkEvent(StreamChunk(m, MapInsert(EmptyMap, "content", JStr(<<>>)), NoFinish), 0)

YieldMutant(evs, e) == <<e>> \o evs

\* yield: the event follows everything emitted before
Yield(evs, e) == Append(evs, e)

StreamInit ==
  /\ handler \in Handlers
  /\ model \in IF handler = "chat" THEN Models ELSE {""}
  /\ pc = "sign"
  /\ signed = "pending"
  /\ calls = 0
  /\ status = 0
  /\ body = NoBody
  /\ reads = <<>>
  /\ sent_first = FALSE
  /\ events = <<>>

SigningFailureEventsMutant == <<SigningErrorEvent, DoneEvent>>

\* the stream::once of lines 187-191 and 387-391 (main.rs 266-270)
SigningFailureEvents == <<SigningErrorEvent>>

\* sign_request returns Err: the handler returns the one-event stream
SignFail ==
  /\ pc = "sign"
  /\ signed' = "failed"
  /\ events' = events \o SigningFailureEvents
  /\ pc' = "end"
  /\ UNCHANGED <<handler, model, calls, status, body, reads, sent_first>>
  /\ StreamOnly

\* sign_request returns Ok: the handler returns the stream that calls the backend
SignOk ==
  /\ pc = "sign"
  /\ signed' = "ok"
  /\ pc' = "execute"
  /\ UNCHANGED <<handler, model, calls, status, body, reads, sent_first, events>>
  /\ StreamOnly

AfterRequestErrorMutant(h) == "end"

AfterRequestErrorRetryMutant(h) == "execute"

\* after the Request error event: the chat handler goes on to yield [DONE]
\* (handlers.rs 449-452); the raw handlers end (handlers.rs 237-240, main.rs 307-310)
AfterRequestError(h) == IF h = "chat" THEN "yield_done" ELSE "end"

\* client.execute returns Err
ExecuteErr ==
  /\ pc = "execute"
  /\ calls' = calls + 1
  /\ events' = Yield(events, RequestErrorEvent)
  /\ pc' = AfterRequestError(handler)
  /\ UNCHANGED <<handler, model, signed, status, body, reads, sent_first>>
  /\ StreamOnly

\* client.execute returns Ok(resp) with status st
ExecuteOk(st) ==
  /\ pc = "execute"
  /\ calls' = calls + 1
  /\ status' = st
  /\ pc' = IF IsSuccess(st) THEN "stream" ELSE "drain"
  /\ UNCHANGED <<handler, model, signed, body, reads, sent_first, events>>
  /\ StreamOnly

StatusErrorEventsMutant(h, st, drained) ==
  IF drained.ok THEN <<StatusErrorEvent(st, drained.text)>> ELSE <<>>

\* the events of a non-2xx response: the chat handler always yields the error
\* chunk, with an empty body when draining failed (unwrap_or_default, line 401);
\* the raw handlers yield it only if the body was read (line 203, main.rs 283)
StatusErrorEvents(h, st, drained) ==
  IF h = "chat" THEN <<StatusErrorEvent(st, drained.text)>>
  ELSE IF drained.ok THEN <<StatusErrorEvent(st, drained.text)>>
  ELSE <<>>

\* after a non-2xx response: [DONE] in the chat handler only
AfterStatusError(h) == IF h = "chat" THEN "yield_done" ELSE "end"

\* resp.text() on a non-2xx response: Ok(text), or Err
Drain(drained) ==
  /\ pc = "drain"
  /\ body' = drained
  /\ events' = events \o StatusErrorEvents(handler, status, drained)
  /\ pc' = AfterStatusError(handler)
  /\ UNCHANGED <<handler, model, signed, calls, status, reads, sent_first>>
  /\ StreamOnly

\* line 418 (220): the mapper is applied to an extracted event
MapExtracted(json_chunk) ==
  IF json_chunk.some THEN bedrock_chunk_to_openai(json_chunk.val) ELSE NoChunk

\* lines 417-419 (219-223): the chunk forwarded for a fragment's text, if any
ForwardedChunk(text) == MapExtracted(extract_json_from_bedrock_chunk(text))

\* lines 419 (221): the mapped chunk is yielded
ForwardedEvents(mapped, n) ==
  IF mapped.some THEN <<ChunkEvent(mapped.val, n)>> ELSE <<>>

\* the events yielded for the text of the n-th fragment read; main.rs 297
\* yields the text itself
TextEvents(h, text, n) ==
  IF h = "raw" THEN <<RawEvent(text, n)>> ELSE ForwardedEvents(ForwardedChunk(text), n)

\* the events yielded for the n-th fragment read
FragmentEvents(h, bytes, n) == TextEvents(h, FromUtf8Lossy(bytes), n)

RECURSIVE YieldAll(_, _)
YieldAll(evs, new) ==
  IF new = <<>> THEN evs ELSE YieldAll(Yield(evs, Head(new)), Tail(new))

\* the loop body for the events new of a fragment
Forward(frag, new) ==
  /\ reads' = Append(reads, frag)
  /\ events' = YieldAll(events, new)
  /\ sent_first' = (sent_first \/ (handler = "chat" /\ new # <<>>))

ScannedMutant(rs, frag) ==
  (IF rs = <<>> THEN <<>> ELSE FragmentBytes(rs[Len(rs)])) \o FragmentBytes(frag)

\* the bytes whose text is handed on for a fragment, read after the fragments
\* rs: text is made of &bytes alone (lines 414, 417; 218, 219), nothing of
\* an earlier fragment is kept
Scanned(rs, frag) == FragmentBytes(frag)

\* stream.next() returns Some(Ok(bytes))
ReadFragment(frag) ==
  /\ pc = "stream"
  /\ Len(reads) < MaxFragments
  /\ Forward(frag, FragmentEvents(handler, Scanned(reads, frag), Len(reads) + 1))
  /\ UNCHANGED <<handler, model, pc, signed, calls, status, body>>
  /\ StreamOnly

AfterReadErrorMutant(h) == "stream"

\* after the Stream error event: break leaves the read loop in every streaming
\* handler (handlers.rs 425-428, 228-231; main.rs 300-303)
AfterReadError(h) == "after_loop"

\* stream.next() returns Some(Err(e)): the error event, then break
ReadError ==
  /\ pc = "stream"
  /\ events' = Yield(events, StreamErrorEvent)
  /\ pc' = AfterReadError(handler)
  /\ UNCHANGED <<handler, model, signed, calls, status, body, reads, sent_first>>
  /\ StreamOnly

\* stream.next() returns None
StreamEnd ==
  /\ pc = "stream"
  /\ pc' = "after_loop"
  /\ UNCHANGED <<handler, model, signed, calls, status, body, reads, sent_first,
                 events>>
  /\ StreamOnly

PlaceholderEventsMutant(h, sent, m) == IF h = "chat" THEN <<Placeholder(m)>> ELSE <<>>

\* lines 432-445: the chat handler's dummy chunk when nothing was forwarded
PlaceholderEvents(h, sent, m) ==
  IF h = "chat" /\ ~sent THEN <<Placeholder(m)>> ELSE <<>>

\* after the read loop: [DONE] in handlers.rs (235, 447), nothing in main.rs
AfterStream(h) == IF h = "raw" THEN "end" ELSE "yield_done"

AfterLoop ==
  /\ pc = "after_loop"
  /\ events' = YieldAll(events, PlaceholderEvents(handler, sent_first, model))
  /\ pc' = AfterStream(handler)
  /\ UNCHANGED <<handler, model, signed, calls, status, body, reads, sent_first>>
  /\ StreamOnly

\* yield Ok(Event::default().data("[DONE]"))
YieldDone ==
  /\ pc = "yield_done"
  /\ events' = Yield(events, DoneEvent)
  /\ pc' = "end"
  /\ UNCHANGED <<handler, model, signed, calls, status, body, reads, sent_first>>
  /\ StreamOnly

(***************************************************************************)
(* The non-streaming handlers.  One request runs through                   *)
(*   "chat_once"    openai_chat_completions_handler (handlers.rs 269-356)  *)
(*   "invoke_once"  invoke_handler (handlers.rs 88-155, main.rs 164-232)   *)
(* The backend decides whether the call fails, the status, and whether the *)
(* body can be read and what it is.                                        *)
(***************************************************************************)
OnceHandlers == {"chat_once", "invoke_once"}

\* {"content":[{"type":"text","text":"hi"}]}
TextAnswer ==
  <<"{">> \o Str("content") \o <<":", "[", "{">> \o Str("type") \o <<":">> \o Str("text")
    \o <<",">> \o Str("text") \o <<":">> \o Str("hi") \o <<"}", "]", "}">>

\* the texts a backend response body can be
ResponseTexts == {<<"denied">>, <<>>, TextAnswer, TextStop, <<"{">> \o Str("content")}

\* an HTTP response: a status with a text, or Json(..) of a value (the raw
\* handler) or of an OpenAIResponse (the chat handler)
Reply(st, kind, text, value, mapped) ==
  [status |-> st, kind |-> kind, text |-> text, value |-> value, mapped |-> mapped]

NoReply == Reply(0, "none", <<>>, JNull, NoResponse)

\* (status, text).into_response()
TextReply(st, text) == Reply(st, "text", text, JNull, NoResponse)

OnceInit ==
  /\ handler \in OnceHandlers
  /\ model \in IF handler = "chat_once" THEN Models ELSE {""}
  /\ pc = "sign_once"
  /\ signed = "pending"
  /\ calls = 0
  /\ status = 0
  /\ body = NoBody
  /\ reads = <<>>
  /\ sent_first = FALSE
  /\ events = <<>>

\* StatusCode::INTERNAL_SERVER_ERROR
InternalServerError == 500

FailureReplyMutant(message) == TextReply(200, message)

\* (StatusCode::INTERNAL_SERVER_ERROR, format!("..: {}", e)).into_response()
FailureReply(message) == TextReply(InternalServerError, message)

\* sign_request returns Err (handlers.rs 113-122, 303-312): the 500 response
OnceSignFail ==
  /\ pc = "sign_once"
  /\ signed' = "failed"
  /\ response' = FailureReply(<<"Signing error">>)
  /\ pc' = "end"
  /\ UNCHANGED <<handler, model, calls, status, body, reads, sent_first, events>>
  /\ ReplyOnly

\* sign_request returns Ok
OnceSignOk ==
  /\ pc = "sign_once"
  /\ signed' = "ok"
  /\ pc' = "execute_once"
  /\ UNCHANGED <<handler, model, calls, status, body, reads, sent_first, events>>
  /\ UNCHANGED response
  /\ ReplyOnly

\* client.execute returns Err (handlers.rs 149-153, 347-354)
OnceExecuteErr ==
  /\ pc = "execute_once"
  /\ calls' = calls + 1
  /\ response' = FailureReply(<<"Request error">>)
  /\ pc' = "end"
  /\ UNCHANGED <<handler, model, signed, status, body, reads, sent_first, events>>
  /\ ReplyOnly

\* client.execute returns Ok(resp) with status st (handlers.rs 125-126, 316-317)
OnceExecuteOk(st) ==
  /\ pc = "execute_once"
  /\ calls' = calls + 1
  /\ status' = st
  /\ pc' = "text"
  /\ UNCHANGED <<handler, model, signed, body, reads, sent_first, events>>
  /\ UNCHANGED response
  /\ ReplyOnly

\* Json(..).into_response() of a parsed body: the value itself in the raw
\* handler (line 134), bedrock_to_openai of it in the chat handler (325-327)
JsonReply(h, m, parsed) ==
  IF h = "chat_once"
    THEN Reply(200, "json", <<>>, JNull, bedrock_to_openai(parsed, <<m>>))
  ELSE Reply(200, "json", <<>>, parsed, NoResponse)

ParsedReplyMutant(h, m, st, text, parsed) == JsonReply(h, m, ValueOr(parsed, JNull))

\* lines 133-137 (323-331): the mapped response of a body that parses, the
\* status and the text of one that does not
ParsedReply(h, m, st, text, parsed) ==
  IF parsed.some THEN JsonReply(h, m, parsed.val) ELSE TextReply(st, text)

\* lines 132-140 (322-335): the response to a backend answer whose body was read
AnswerReply(h, m, st, text) ==
  IF IsSuccess(st) THEN ParsedReply(h, m, st, text, FromStr(text))
  ELSE TextReply(st, text)

\* resp.text() returns Ok(text)
OnceReadText(text) ==
  /\ pc = "text"
  /\ body' = [ok |-> TRUE, text |-> text]
  /\ response' = AnswerReply(handler, model, status, text)
  /\ pc' = "end"
  /\ UNCHANGED <<handler, model, signed, calls, status, reads, sent_first, events>>
  /\ ReplyOnly

\* resp.text() returns Err (handlers.rs 142-146, 337-344)
OnceReadErr ==
  /\ pc = "text"
  /\ response' = FailureReply(<<"Failed to read response">>)
  /\ pc' = "end"
  /\ UNCHANGED <<handler, model, signed, calls, status, body, reads, sent_first,
                 events>>
  /\ ReplyOnly

(***************************************************************************)
(* The Frame Extractor run on one fragment, one iteration of its while     *)
(* loop per step.                                                          *)
(***************************************************************************)

\* the longest fragment, in pieces
MaxPieces == 3

\* the backend event texts that are JSON
JsonTexts ==
  {TextStop, TextStart, TextDelta("hi"), TextDelta("yo"), TextDeltaNoText, TextPing}

\* the pieces a fragment is built from: envelopes of JSON and of non-JSON bytes,
\* single characters, and objects that are no envelope
ExtractPieces ==
  { Env(TextStop), Env(TextDelta("hi")), Env(TextNotJson), Env(TextBadUtf8),
    Raw(<<"{">>), Raw(<<"}">>), Raw(<<Q>>), Raw(<<"\\">>), Raw(<<"x">>),
    Raw(TextPing),
    Raw(<<"{">> \o Str("bytes") \o <<":">> \o Str("hi") \o <<"}">>),
    Raw(<<"{">> \o Str("bytes") \o <<":", "1", "}">>),
    Raw(<<"{", "\\", Q, "}">>) }

RECURSIVE SeqsUpTo(_, _)
\* the sequences over S of length at most n
SeqsUpTo(S, n) ==
  IF n = 0 THEN {<<>>}
  ELSE LET shorter == SeqsUpTo(S, n - 1)
       IN  shorter \cup {Append(q, x) : q \in shorter, x \in S}

ExtractInit ==
  /\ pieces \in SeqsUpTo(ExtractPieces, MaxPieces)
  /\ chunk_text = FromUtf8Lossy(FragmentBytes(pieces))
  /\ start_idx = 0
  /\ xpc = "scan"
  /\ xresult = None

\* the loop ends with the iteration it: return (Some or None), or break
Leave(it) ==
  /\ xpc' = "done"
  /\ xresult' = it.result
  /\ UNCHANGED <<pieces, chunk_text, start_idx>>

\* no '{' at or after start_idx: the loop ends and None is returned
IterExhausted ==
  /\ xpc = "scan"
  /\ ScanIteration(chunk_text, start_idx).kind = "exhausted"
  /\ Leave([kind |-> "exhausted", start_idx |-> start_idx, result |-> None])
  /\ ExtractOnly

\* no matching '}': break, and None is returned
IterBreak ==
  /\ xpc = "scan"
  /\ ScanIteration(chunk_text, start_idx).kind = "break"
  /\ Leave([kind |-> "break", start_idx |-> start_idx, result |-> None])
  /\ ExtractOnly

\* the state after the iteration it of the loop
Iterate(it) ==
  IF it.kind = "continue"
    THEN start_idx' = it.start_idx /\ UNCHANGED <<pieces, chunk_text, xpc, xresult>>
  ELSE Leave(it)

\* the candidate decodes: return Some(bedrock_json)
IterReturn ==
  /\ xpc = "scan"
  /\ ScanIteration(chunk_text, start_idx).kind = "return"
  /\ Iterate(ScanIteration(chunk_text, start_idx))
  /\ ExtractOnly

\* the candidate does not decode: start_idx = end, and the loop goes on
IterContinue ==
  /\ xpc = "scan"
  /\ ScanIteration(chunk_text, start_idx).kind = "continue"
  /\ Iterate(ScanIteration(chunk_text, start_idx))
  /\ ExtractOnly

(***************************************************************************)
(* The streaming Inbound Mapper applied to one backend event.              *)
(***************************************************************************)

\* the members a backend event may have
EventTypes ==
  { None, Some(JStr(<<"message_start">>)), Some(JStr(<<"content_block_delta">>)),
    Some(JStr(<<"message_stop">>)), Some(JStr(<<"ping">>)),
    Some(JStr(<<"content_block_start">>)), Some(JNum("1")) }

EventDeltas ==
  { None, Some(JObj(EmptyMap)),
    Some(JObj(MapInsert(EmptyMap, "text", JStr(<<"hi">>)))),
    Some(JObj(MapInsert(EmptyMap, "text", JStr(<<>>)))),
    Some(JObj(MapInsert(EmptyMap, "text", JNum("1")))),
    Some(JStr(<<"hi">>)) }

EventIndexes == {None, Some(JNum("1"))}

\* the object with the given optional members
WithMember(m, key, opt) == IF opt.some THEN MapInsert(m, key, opt.val) ELSE m

MapInputs ==
  { JObj(WithMember(WithMember(WithMember(EmptyMap, "type", ty), "delta", d),
                    "index", ix)) :
      ty \in EventTypes, d \in EventDeltas, ix \in EventIndexes }
  \cup {JNull, JNum("1"), JStr(<<"message_stop">>), JArr(<<>>)}

MapInit ==
  /\ \/ /\ mfrag = <<>>
        /\ chunk \in {Some(e) : e \in MapInputs}
     \/ /\ mfrag \in {<<Env(t)>> : t \in JsonTexts \cup {TextNotJson}}
        /\ chunk = extract_json_from_bedrock_chunk(FromUtf8Lossy(FragmentBytes(mfrag)))
  /\ mpc = "event"
  /\ openai_chunk = NoChunk

\* lines 417-418: the mapper is called on an extracted event only
MapEvent ==
  /\ mpc = "event"
  /\ mpc' = "mapped"
  /\ openai_chunk' = IF chunk.some THEN bedrock_chunk_to_openai(chunk.val) ELSE NoChunk
  /\ UNCHANGED <<mfrag, chunk>>
  /\ MapOnly

(***************************************************************************)
(* The Request Normalizer applied to one request body of the raw invoke    *)
(* handlers (Json<Value>: any JSON value).                                 *)
(***************************************************************************)

Prompts == {None, Some(JStr(<<"hi">>)), Some(JStr(<<>>)), Some(JNum("7")), Some(JNull)}

MessagesFields == {None, Some(JArr(<<>>))}

MaxTokensToSample == {None, Some(JNum("50")), Some(JNull)}

MaxTokensFields == {None, Some(JNum("7"))}

Temperatures == {None, Some(JNum("1"))}

Payloads ==
  { JObj(WithMember(WithMember(WithMember(WithMember(WithMember(EmptyMap,
      "prompt", p), "messages", ms), "max_tokens_to_sample", s), "max_tokens", mt),
      "temperature", te)) :
      p \in Prompts, ms \in MessagesFields, s \in MaxTokensToSample,
      mt \in MaxTokensFields, te \in Temperatures }
  \cup {JNull, JNum("1"), JStr(<<"hi">>), JArr(<<>>)}

NormInit ==
  /\ payload \in Payloads
  /\ npc = "input"
  /\ normalized = Returned(JNull)

Transform ==
  /\ npc = "input"
  /\ npc' = "done"
  /\ normalized' = transform_payload(payload)
  /\ UNCHANGED payload
  /\ NormOnly

(***************************************************************************)
(* The schema mappers applied to one chat request: the Outbound Mapper,    *)
(* the backend's answer, the non-streaming Inbound Mapper                  *)
(* (openai_chat_completions_handler, handlers.rs 286-287 and 323-325).     *)
(***************************************************************************)

\* the longest chat request, in messages
MaxMessages == 3

TextContent(w) == Some(JStr(<<w>>))

\* {"a":1}, as a value and as the JSON string of the client protocol
ArgsValue == JObj(MapInsert(EmptyMap, "a", JNum("1")))

ArgsText == <<"{", Q, "a", Q, ":", "1", "}">>

\* one entry of an embedded tool-call list
CallValue(id, name, arguments) ==
  Object3("id", JStr(<<id>>), "type", JStr(<<"function">>),
          "function", Object2("name", JStr(<<name>>), "arguments", arguments))

\* a content that is an object holding the tool calls
Embedded(entries) == Some(JObj(MapInsert(EmptyMap, "tool_calls", JArr(entries))))

\* the messages a chat request is built from
ChatMessages ==
  { OpenAIMessage("system", TextContent("be brief"), NoToolCalls, NoString),
    OpenAIMessage("system", TextContent("no jokes"), NoToolCalls, NoString),
    OpenAIMessage("system", Some(JObj(MapInsert(EmptyMap, "text", JStr(<<"hi">>)))),
                  NoToolCalls, NoString),
    OpenAIMessage("system", None, NoToolCalls, NoString),
    OpenAIMessage("user", TextContent("hi"), NoToolCalls, NoString),
    OpenAIMessage("user", None, NoToolCalls, NoString),
    OpenAIMessage("assistant",
                  Embedded(<< CallValue("c1", "f", ArgsValue),
                              CallValue("c2", "g", JObj(EmptyMap)) >>),
                  NoToolCalls, NoString),
    OpenAIMessage("assistant", Embedded(<< CallValue("c1", "f", JStr(ArgsText)) >>),
                  NoToolCalls, NoString),
    OpenAIMessage("assistant", None,
                  [some |-> TRUE, val |-> << ToolCall(<<"c1">>, <<"f">>, ArgsText) >>],
                  NoString),
    OpenAIMessage("assistant", Embedded(<< JObj(EmptyMap) >>), NoToolCalls, NoString),
    OpenAIMessage("assistant", Embedded(<< CallValue("c3", "h", JStr(<<"oops">>)) >>),
                  NoToolCalls, NoString),
    OpenAIMessage("assistant", TextContent("ok"), NoToolCalls, NoString),
    OpenAIMessage("tool", TextContent("42"), NoToolCalls, SomeString(<<"c1">>)),
    OpenAIMessage("tool", None, NoToolCalls, NoString) }

\* model, max_tokens and temperature of a chat request
RequestOptions ==
  { [model |-> NoString, max_tokens |-> None, temperature |-> None],
    [model |-> SomeString(<<"gpt-4o">>), max_tokens |-> Some(JNum("7")),
     temperature |-> Some(JNum("1"))] }

OpenAIRequest(messages, opts) ==
  [messages |-> messages, model |-> opts.model, max_tokens |-> opts.max_tokens,
   temperature |-> opts.temperature]

ChatInit ==
  /\ openai_req \in { OpenAIRequest(ms, o) :
                        ms \in SeqsUpTo(ChatMessages, MaxMessages), o \in RequestOptions }
  /\ bedrock_payload = JNull
  /\ bedrock_response = JNull
  /\ openai_response = NoResponse
  /\ cpc = "request"

\* handlers.rs 287: let bedrock_payload = openai_to_bedrock(&openai_req)
Outbound ==
  /\ cpc = "request"
  /\ cpc' = "outbound"
  /\ bedrock_payload' = openai_to_bedrock(openai_req)
  /\ UNCHANGED <<openai_req, bedrock_response, openai_response>>
  /\ ChatOnly

RECURSIVE BlocksOfMessages(_)
\* the tool_use blocks of the assistant messages of a backend payload, in order
BlocksOfMessages(msgs) ==
  IF msgs = <<>> THEN <<>>
  ELSE (IF Head(msgs).v[<<"role">>] = JStr(<<"assistant">>)
           /\ Head(msgs).v[<<"content">>].t = "arr"
          THEN Head(msgs).v[<<"content">>].v ELSE <<>>)
         \o BlocksOfMessages(Tail(msgs))

TextBlock(w) == Object2("type", JStr(<<"text">>), "text", JStr(<<w>>))

\* a backend answer whose tool_use blocks are the blocks the payload holds
EchoResponse(sent) ==
  JObj(MapInsert(EmptyMap, "content",
                 JArr(BlocksOfMessages(AsArray(Get(sent, "messages")).val))))

\* the answers of the backend to a payload
BackendResponses(sent) ==
  { EchoResponse(sent),
    JObj(MapInsert(EmptyMap, "content", JArr(<<TextBlock("one"), TextBlock("two")>>))),
    JObj(EmptyMap) }

\* handlers.rs 323: the body of the backend's answer parses to a value
BackendAnswer(answer) ==
  /\ cpc = "outbound"
  /\ cpc' = "answered"
  /\ bedrock_response' = answer
  /\ UNCHANGED <<openai_req, bedrock_payload, openai_response>>
  /\ ChatOnly

\* handlers.rs 286: openai_req.model.as_deref().unwrap_or("claude-sonnet-4")
ModelOf(r) == StrOr(r.model, <<"claude-sonnet-4">>)

\* handlers.rs 325: bedrock_to_openai(&bedrock_response, model)
Inbound ==
  /\ cpc = "answered"
  /\ cpc' = "done"
  /\ openai_response' = bedrock_to_openai(bedrock_response, ModelOf(openai_req))
  /\ UNCHANGED <<openai_req, bedrock_payload, bedrock_response>>
  /\ ChatOnly

\* handlers.rs 325 in a build with overflow checks, when the addition of line
\* 264 overflows: bedrock_to_openai panics and the handler gives no response
InboundPanic ==
  /\ cpc = "answered"
  /\ TotalPanics(bedrock_response)
  /\ cpc' = "panicked"
  /\ UNCHANGED <<openai_req, bedrock_payload, bedrock_response, openai_response>>
  /\ ChatOnly

(***************************************************************************)
(* The non-streaming Inbound Mapper applied to one answer of the backend:  *)
(* a sequence of content blocks (BackendResponse: text and tool_use        *)
(* blocks), and blocks and answers of other shapes.                        *)
(***************************************************************************)

\* the longest content sequence of an answer, in blocks
MaxBlocks == 3

ToolUse(id, name, input) ==
  JObj(MapInsert(Object3("type", JStr(<<"tool_use">>), "id", JStr(<<id>>),
                         "name", JStr(<<name>>)).v,
                 "input", input))

InboundBlocks ==
  { TextBlock("one"), TextBlock("two"),
    ToolUse("c1", "f", ArgsValue), ToolUse("c2", "g", JObj(EmptyMap)),
    Object2("type", JStr(<<"tool_use">>), "name", JStr(<<"f">>)),
    Object2("type", JStr(<<"thinking">>), "text", JStr(<<"hm">>)),
    Object2("type", JStr(<<"text">>), "text", JNum("1")) }

InboundContents ==
  {Some(JArr(bs)) : bs \in SeqsUpTo(InboundBlocks, MaxBlocks)}
    \cup {None, Some(JStr(<<"x">>))}

\* the token counts the backend reports: small ones, the largest i32, and
\* counts beyond 31 and beyond 32 bits
TokenCounts ==
  { None, Some(JNum("7")), Some(JNum("2147483647")), Some(JNum("2147483648")),
    Some(JNum("4294967301")) }

InboundUsages ==
  { Some(JObj(WithMember(WithMember(EmptyMap, "input_tokens", i), "output_tokens", o))) :
      i \in TokenCounts, o \in TokenCounts }
    \cup {None}

InboundInit ==
  /\ openai_req \in {OpenAIRequest(<<>>, o) : o \in RequestOptions}
  /\ bedrock_payload = openai_to_bedrock(openai_req)
  /\ bedrock_response \in
       { JObj(WithMember(WithMember(EmptyMap, "content", c), "usage", u)) :
           c \in InboundContents, u \in InboundUsages }
  /\ openai_response = NoResponse
  /\ cpc = "answered"

(***************************************************************************)
(* The Request Signer applied to the request of one handler.               *)
(***************************************************************************)
\* AppState: region, session token and inference profile (the keys are not
\* read by what the model follows)
AppState(region, session_token, inference_profile) ==
  [region |-> region, session_token |-> session_token,
   inference_profile |-> inference_profile]

AppStates ==
  { AppState(rg, tk, pf) :
      rg \in {"us-east-1", "ap-southeast-2"},
      tk \in {NoString, SomeString(<<"token">>)},
      pf \in {"apac.anthropic.claude-sonnet-4-20250514-v1:0", "profile-b"} }

\* the bodies a handler serializes
RequestBodies ==
  { to_string(JObj(EmptyMap)),
    to_string(transform_payload(JNull).val),
    to_string(transform_payload(JObj(MapInsert(EmptyMap, "prompt", JStr(<<"hi">>)))).val),
    <<>> }

Callers == Handlers \cup OnceHandlers

\* sign_request(http_req, &state, true) in the streaming handlers,
\* sign_request(http_req, &state, false) in the others
IsStreaming(h) == h \in Handlers

\* the endpoint of a handler (handlers.rs 92-95, 161-164, 290-293, 369-372)
Endpoint(h, state) ==
  <<"https://bedrock-runtime.", state.region, ".amazonaws.com/model/",
    state.inference_profile,
    IF IsStreaming(h) THEN "/invoke-with-response-stream" ELSE "/invoke">>

\* Request::builder() of a handler (handlers.rs 106-111, 173-179, 296-301,
\* 375-381): the streaming handlers of handlers.rs add X-Amzn-Bedrock-Accept
BuiltRequest(h, state, bytes) ==
  HttpRequest("POST", Endpoint(h, state),
              << <<"Content-Type", <<"application/json">>>> >>
                \o (IF h \in {"chat", "invoke"}
                      THEN << <<"X-Amzn-Bedrock-Accept", <<"application/json">>>> >>
                    ELSE <<>>),
              bytes)

NoSigning ==
  [request |-> HttpRequest("", <<>>, <<>>, <<>>),
   signature |-> HttpRequest("", <<>>, <<>>, <<>>)]

SignInit ==
  /\ app \in AppStates
  /\ caller \in Callers
  /\ http_req \in {BuiltRequest(caller, app, bytes) : bytes \in RequestBodies}
  /\ signing = NoSigning
  /\ spc = "sign"

\* sign_request returns Ok(request)
SignRequestOk ==
  /\ spc = "sign"
  /\ spc' = "signed"
  /\ signing' = sign_request(http_req, app, IsStreaming(caller))
  /\ UNCHANGED <<app, caller, http_req>>
  /\ SignOnly

\* sign_request returns Err: one of its ? operators took the error
SignRequestErr ==
  /\ spc = "sign"
  /\ spc' = "failed"
  /\ UNCHANGED <<app, caller, http_req, signing>>
  /\ SignOnly

(***************************************************************************)
(* The client of a streaming request goes away.  The handler returns the   *)
(* event stream as the response body (Sse::new(raw_stream), handlers.rs    *)
(* 245, 457; main.rs 314): the read loop is the body of that stream, not a *)
(* task of its own, so it advances only while the server polls the body,   *)
(* and the server drops the body when the client has disconnected.         *)
(***************************************************************************)
DroppedMutant(p) == p

\* the position of a stream that was dropped: it is never resumed
Dropped(p) == "dropped"

\* the positions at which the stream holds the backend response: resp from
\* the call until it is consumed or the stream is left (handlers.rs 398-405),
\* the byte stream of a 2xx response until the end of the block (407-448)
ConnectionHeld(p, st) ==
  \/ p \in {"drain", "stream"}
  \/ p \in {"after_loop", "yield_done"} /\ IsSuccess(st)

\* the client disconnects while the stream is suspended at an await or a yield
ClientDisconnect ==
  /\ handler \in Handlers
  /\ signed = "ok"
  /\ pc \in {"execute", "drain", "stream", "after_loop", "yield_done"}
  /\ client = "connected"
  /\ client' = "gone"
  /\ pc' = Dropped(pc)
  /\ UNCHANGED <<handler, model, signed, calls, status, body, reads, sent_first,
                 events>>
  /\ UNCHANGED other
  /\ UNCHANGED <<extractVars, mapVars, normVars, chatVars, replyVars, signVars>>

(***************************************************************************)
(* Two streaming requests at once.  The server runs each request's handler *)
(* and stream as a task of its own; what a request keeps between polls are *)
(* the locals of its handler and of its stream (handlers.rs 358-458), what *)
(* the two share is the Arc<AppState> (state.rs 3-26).  One request runs   *)
(* at a time on the stream variables, the other is parked in other; the    *)
(* scheduler may switch between them at any step.                          *)
(***************************************************************************)
\* no second request
NoOther == [handler |-> "none"]

Request(h, m, p, sg, n, st, drained, rs, sent, evs) ==
  [handler |-> h, model |-> m, pc |-> p, signed |-> sg, calls |-> n,
   status |-> st, body |-> drained, reads |-> rs, sent_first |-> sent,
   events |-> evs]

\* the state of the running request
Running ==
  Request(handler, model, pc, signed, calls, status, body, reads, sent_first,
          events)

\* a request that has just arrived
Arrived(h, m) == Request(h, m, "sign", "pending", 0, 0, NoBody, <<>>, FALSE, <<>>)

SentFirstOfMutant(r, running) == running

\* let mut sent_first = false (line 409) is a local of the request's own
\* stream: a resumed request finds the flag as it left it
SentFirstOf(r, running) == r.sent_first

\* the scheduler suspends the running request and polls the other
Switch ==
  /\ other # NoOther
  /\ other' = Running
  /\ handler' = other.handler
  /\ model' = other.model
  /\ pc' = other.pc
  /\ signed' = other.signed
  /\ calls' = other.calls
  /\ status' = other.status
  /\ body' = other.body
  /\ reads' = other.reads
  /\ sent_first' = SentFirstOf(other, sent_first)
  /\ events' = other.events
  /\ UNCHANGED client
  /\ UNCHANGED <<extractVars, mapVars, normVars, chatVars, replyVars, signVars>>

\* the model names of the first and of the second request
ModelOfFirst(h) == IF h = "chat" THEN "claude-sonnet-4" ELSE ""

ModelOfSecond(h) == IF h = "chat" THEN "gpt-4o" ELSE ""

TwoInit ==
  /\ StreamInit
  /\ model = ModelOfFirst(handler)
  /\ client = "connected"
  /\ other \in {Arrived(h, ModelOfSecond(h)) : h \in Handlers}

\* what the backend sends to either of the two requests
TwoStatuses == {200, 403}

TwoFragments == { <<Raw(<<"x">>)>>, <<Raw(<<"x">>), Env(TextDelta("hi"))>> }

\* the two backend streams together are at most MaxFragments long
TwoReadFragment(frag) ==
  /\ other # NoOther
  /\ Len(reads) + Len(other.reads) < MaxFragments
  /\ ReadFragment(frag)

(***************************************************************************)
(* Specifications.  Each runs one component; the variables of the others   *)
(* rest.                                                                   *)
(***************************************************************************)

StreamIdle ==
  /\ handler = "none"
  /\ model = ""
  /\ pc = "idle"
  /\ signed = "pending"
  /\ calls = 0
  /\ status = 0
  /\ body = NoBody
  /\ reads = <<>>
  /\ sent_first = FALSE
  /\ events = <<>>

ExtractIdle ==
  /\ pieces = <<>>
  /\ chunk_text = <<>>
  /\ start_idx = 0
  /\ xpc = "idle"
  /\ xresult = None

MapIdle ==
  /\ mfrag = <<>>
  /\ chunk = None
  /\ mpc = "idle"
  /\ openai_chunk = NoChunk

NormIdle ==
  /\ payload = JNull
  /\ npc = "idle"
  /\ normalized = Returned(JNull)

ChatIdle ==
  /\ openai_req = OpenAIRequest(<<>>, [model |-> NoString, max_tokens |-> None,
                                       temperature |-> None])
  /\ bedrock_payload = JNull
  /\ bedrock_response = JNull
  /\ openai_response = NoResponse
  /\ cpc = "idle"

ReplyIdle == response = NoReply

\* a request of its own: the client stays, no second request
Alone == client = "connected" /\ other = NoOther

SignIdle ==
  /\ app = AppState("us-east-1", NoString, "apac.anthropic.claude-sonnet-4-20250514-v1:0")
  /\ caller = "none"
  /\ http_req = HttpRequest("", <<>>, <<>>, <<>>)
  /\ signing = NoSigning
  /\ spc = "idle"

Init ==
  /\ StreamInit \/ OnceInit
  /\ ReplyIdle /\ ExtractIdle /\ MapIdle /\ NormIdle /\ ChatIdle /\ SignIdle
  /\ Alone

Next ==
  \/ SignFail
  \/ SignOk
  \/ ExecuteErr
  \/ \E st \in Statuses : ExecuteOk(st)
  \/ \E text \in Bodies : Drain([ok |-> TRUE, text |-> text])
  \/ Drain(NoBody)
  \/ \E frag \in StreamFragments : ReadFragment(frag)
  \/ ReadError
  \/ StreamEnd
  \/ AfterLoop
  \/ YieldDone
  \/ OnceSignFail
  \/ OnceSignOk
  \/ OnceExecuteErr
  \/ \E st \in Statuses : OnceExecuteOk(st)
  \/ \E text \in ResponseTexts : OnceReadText(text)
  \/ OnceReadErr

\* one request, streaming or not
Spec == Init /\ [][Next]_vars

\* a streaming request whose handler keeps being polled and whose backend
\* stream ends: every step that can be taken is taken
FairSpec == Spec /\ WF_vars(Next)

InitExtract == ExtractInit /\ StreamIdle /\ MapIdle /\ NormIdle /\ ChatIdle /\ ReplyIdle /\ SignIdle /\ Alone

NextExtract == IterExhausted \/ IterBreak \/ IterReturn \/ IterContinue

\* the Frame Extractor on one fragment
SpecExtract == InitExtract /\ [][NextExtract]_vars

InitMap == MapInit /\ StreamIdle /\ ExtractIdle /\ NormIdle /\ ChatIdle /\ ReplyIdle /\ SignIdle /\ Alone

NextMap == MapEvent

\* the streaming Inbound Mapper on one event
SpecMap == InitMap /\ [][NextMap]_vars

InitNormalize == NormInit /\ StreamIdle /\ ExtractIdle /\ MapIdle /\ ChatIdle /\ ReplyIdle /\ SignIdle /\ Alone

NextNormalize == Transform

\* the Request Normalizer on one request body
SpecNormalize == InitNormalize /\ [][NextNormalize]_vars

InitChat == ChatInit /\ StreamIdle /\ ExtractIdle /\ MapIdle /\ NormIdle /\ ReplyIdle /\ SignIdle /\ Alone

NextChat ==
  \/ Outbound
  \/ \E answer \in BackendResponses(bedrock_payload) : BackendAnswer(answer)
  \/ Inbound

\* the schema mappers on one chat request and one backend answer
SpecChat == InitChat /\ [][NextChat]_vars

InitInbound ==
  /\ InboundInit
  /\ StreamIdle /\ ExtractIdle /\ MapIdle /\ NormIdle /\ ReplyIdle /\ SignIdle
  /\ Alone

NextInbound == Inbound \/ InboundPanic

\* the non-streaming Inbound Mapper on one answer of the backend
SpecInbound == InitInbound /\ [][NextInbound]_vars

InitSign ==
  /\ SignInit
  /\ StreamIdle /\ ExtractIdle /\ MapIdle /\ NormIdle /\ ChatIdle /\ ReplyIdle
  /\ Alone

NextSign == SignRequestOk \/ SignRequestErr

\* the Request Signer on the request of one handler
SpecSign == InitSign /\ [][NextSign]_vars

NextDisconnect == Next \/ ClientDisconnect

\* one request whose client may disconnect
SpecDisconnect == Init /\ [][NextDisconnect]_vars

InitTwo ==
  /\ TwoInit
  /\ ReplyIdle /\ ExtractIdle /\ MapIdle /\ NormIdle /\ ChatIdle /\ SignIdle

NextTwo ==
  \/ SignFail
  \/ SignOk
  \/ ExecuteErr
  \/ \E st \in TwoStatuses : ExecuteOk(st)
  \/ Drain([ok |-> TRUE, text |-> <<"denied">>])
  \/ Drain(NoBody)
  \/ \E frag \in TwoFragments : TwoReadFragment(frag)
  \/ ReadError
  \/ StreamEnd
  \/ AfterLoop
  \/ YieldDone
  \/ Switch

\* two streaming requests, interleaved in any way
SpecTwo == InitTwo /\ [][NextTwo]_vars

(***************************************************************************)
(* Properties.                                                             *)
(***************************************************************************)
\* the number of [DONE] events in a sequence of events
DoneCount(evs) == Cardinality({i \in 1..Len(evs) : evs[i] = DoneEvent})

\* the number of chunk events (forwarded chunks and placeholder)
ChunkEventCount(evs) == Cardinality({i \in 1..Len(evs) : evs[i].kind = "chunk"})

\* the number of events forwarded from a read
ForwardedCount(evs) == Cardinality({i \in 1..Len(evs) : evs[i].src > 0})

\* the chat handler has attempted the backend call
ChatAttempted == handler = "chat" /\ calls >= 1

\* the JSON value each backend event text denotes
EventJson(text) ==
  CASE text = TextStop -> JObj(MapInsert(EmptyMap, "type", JStr(<<"message_stop">>)))
    [] text = TextStart -> JObj(MapInsert(EmptyMap, "type", JStr(<<"message_start">>)))
    [] text = TextPing -> JObj(MapInsert(EmptyMap, "type", JStr(<<"ping">>)))
    [] text = TextDeltaNoText ->
         JObj(MapInsert(MapInsert(EmptyMap, "type", JStr(<<"content_block_delta">>)),
                        "delta", JObj(EmptyMap)))
    [] text = TextDelta("hi") ->
         JObj(MapInsert(MapInsert(EmptyMap, "type", JStr(<<"content_block_delta">>)),
                        "delta", JObj(MapInsert(EmptyMap, "text", JStr(<<"hi">>)))))
    [] text = TextDelta("yo") ->
         JObj(MapInsert(MapInsert(EmptyMap, "type", JStr(<<"content_block_delta">>)),
                        "delta", JObj(MapInsert(EmptyMap, "text", JStr(<<"yo">>)))))

\* a well-formed envelope: {"bytes":"<base64 of JSON>"}
WellFormed(p) == p.kind = "env" /\ p.text \in JsonTexts

\* C1: in the chat-completions streaming handler [DONE] is only ever the last
\* event emitted (so it is emitted at most once); when the handler has ended
\* after attempting the backend call the last event is [DONE]; and once the
\* call is attempted the handler does end, with exactly one [DONE].
C1_DoneOnceAndLast ==
  /\ [](handler = "chat" =>
          \A i \in 1..Len(events) : events[i] = DoneEvent => i = Len(events))
  /\ [](ChatAttempted /\ pc = "end" =>
          Len(events) > 0 /\ events[Len(events)] = DoneEvent)
  /\ (ChatAttempted ~> (pc = "end" /\ DoneCount(events) = 1))

\* a 2xx stream of at least two fragments has ended with [DONE]
C1_Witness ==
  /\ ChatAttempted /\ pc = "end" /\ IsSuccess(status) /\ Len(reads) >= 2
  /\ events[Len(events)] = DoneEvent

\* C2: in the chat-completions streaming handler with a 2xx response, the
\* placeholder chunk is emitted exactly when no mapped chunk was forwarded:
\* then it is the only chunk event and stands immediately before [DONE];
\* otherwise every chunk event is a forwarded chunk.  No placeholder is
\* emitted while the stream is being read.
C2_PlaceholderIffNothingForwarded ==
  handler = "chat" /\ IsSuccess(status) =>
    /\ pc \in {"stream", "after_loop"} =>
         ChunkEventCount(events) = ForwardedCount(events)
    /\ pc = "end" /\ ForwardedCount(events) = 0 =>
         /\ Len(events) >= 2
         /\ events[Len(events)] = DoneEvent
         /\ events[Len(events) - 1] = Placeholder(model)
         /\ ChunkEventCount(events) = 1
    /\ pc = "end" /\ ForwardedCount(events) > 0 =>
         ChunkEventCount(events) = ForwardedCount(events)

\* a stream whose fragments were all absorbed has ended with the placeholder
C2_Witness ==
  /\ handler = "chat" /\ IsSuccess(status) /\ pc = "end"
  /\ Len(reads) >= 1 /\ ForwardedCount(events) = 0
  /\ events[Len(events) - 1] = Placeholder(model)

RECURSIVE EnvelopeChunks(_)
\* the mapped chunks of the envelopes of a fragment, one by one, in order
EnvelopeChunks(frag) ==
  IF frag = <<>> THEN <<>>
  ELSE LET c == bedrock_chunk_to_openai(EventJson(Head(frag).text))
       IN  (IF c.some THEN <<c.val>> ELSE <<>>) \o EnvelopeChunks(Tail(frag))

RECURSIVE AllEnvelopeChunks(_)
AllEnvelopeChunks(frags) ==
  IF frags = <<>> THEN <<>>
  ELSE EnvelopeChunks(Head(frags)) \o AllEnvelopeChunks(Tail(frags))

\* the chunks of the events forwarded from reads, in the order emitted
ForwardedChunks(evs) ==
  LET fw == SelectSeq(evs, LAMBDA e : e.src > 0)
  IN  [i \in 1..Len(fw) |-> fw[i].chunk]

\* C3: when every fragment read consists of well-formed envelopes, the chat
\* relay has forwarded the mapped chunk of every envelope, in order.
C3_EveryEnvelopeForwarded ==
  /\ handler = "chat"
  /\ pc = "stream"
  /\ \A n \in 1..Len(reads) : \A k \in 1..Len(reads[n]) : WellFormed(reads[n][k])
  => ForwardedChunks(events) = AllEnvelopeChunks(reads)

\* C4: the events forwarded from reads appear in the order of the reads they
\* come from, and each is the chunk (the text, in main.rs) of its read.
C4_ChunksInReadOrder ==
  /\ \A i, j \in 1..Len(events) :
       i < j /\ events[i].src > 0 /\ events[j].src > 0 =>
         events[i].src < events[j].src
  /\ \A i \in 1..Len(events) :
       events[i].src > 0 =>
         /\ events[i].src <= Len(reads)
         /\ events[i] \in
              { ChunkEvent(ForwardedChunk(
                  FromUtf8Lossy(FragmentBytes(reads[events[i].src]))).val,
                  events[i].src),
                RawEvent(FromUtf8Lossy(FragmentBytes(reads[events[i].src])),
                         events[i].src) }

\* two different chunks were forwarded from two reads
C4_Witness ==
  \E i, j \in 1..Len(events) :
    /\ i < j /\ events[i].src > 0 /\ events[j].src > 0
    /\ events[i].chunk # events[j].chunk
    /\ handler = "chat"

\* framing bytes without '{', then one well-formed envelope, then garbage:
\* pieces none of which is a well-formed envelope
OneEnvelope(ps, at) ==
  /\ at \in 1..Len(ps)
  /\ WellFormed(ps[at])
  /\ \A i \in 1..(at - 1) : ps[i].kind = "raw" /\ ps[i].text \in {<<"x">>, <<Q>>, <<"\\">>, <<"}">>}
  /\ \A i \in (at + 1)..Len(ps) : ~WellFormed(ps[i])

\* C5: for a fragment with exactly one well-formed envelope, optionally
\* followed by trailing garbage (and also when framing bytes without '{'
\* precede it), the Frame Extractor returns Some of the JSON value that the
\* base64 of the bytes field denotes.
C5_OneEnvelopeDecoded ==
  \A at \in 1..Len(pieces) :
    xpc = "done" /\ OneEnvelope(pieces, at) =>
      xresult = Some(EventJson(pieces[at].text))

\* the extractor has returned the event of an envelope followed by garbage
C5_Witness ==
  /\ xpc = "done" /\ OneEnvelope(pieces, 1) /\ Len(pieces) >= 2
  /\ pieces[2] = Raw(<<"{">>)
  /\ xresult = Some(EventJson(pieces[1].text))

\* C6: when signing fails in a streaming handler the client receives exactly
\* the one signing-error event, the stream has ended, there is no [DONE]
\* event and no backend call was made.
C6_SigningFailure ==
  handler \in Handlers /\ signed = "failed" =>
    /\ events = <<SigningErrorEvent>>
    /\ DoneCount(events) = 0
    /\ calls = 0
    /\ pc = "end"

C6_Witness == signed = "failed" /\ Len(events) = 1 /\ handler \in {"chat", "invoke"}

\* C7: in the chat-completions streaming handler a non-2xx response gives
\* exactly the error chunk with the status and the body (empty when draining
\* failed) and then [DONE]; no fragment is read.
C7_NonSuccessStatus ==
  handler = "chat" /\ status # 0 /\ ~IsSuccess(status) =>
    /\ reads = <<>>
    /\ pc \in {"drain", "yield_done", "end"}
    /\ pc = "drain" => events = <<>>
    /\ pc = "yield_done" => events = <<StatusErrorEvent(status, body.text)>>
    /\ pc = "end" => events = <<StatusErrorEvent(status, body.text), DoneEvent>>

\* the handler has ended after a non-2xx response whose body could not be read
C7_Witness ==
  /\ handler = "chat" /\ status = 403 /\ pc = "end" /\ ~body.ok
  /\ events = <<StatusErrorEvent(403, <<>>), DoneEvent>>

\* C8: once the raw streaming handler has attempted the backend call, it ends
\* with exactly one [DONE], as the last event.
C8_RawHandlerDone ==
  handler \in {"invoke", "raw"} /\ calls >= 1 /\ pc = "end" =>
    /\ DoneCount(events) = 1
    /\ events[Len(events)] = DoneEvent

\* the event is an object whose "type" is the string w
TypeIs(ev, w) ==
  /\ ev.t = "obj"
  /\ <<"type">> \in DOMAIN ev.v
  /\ ev.v[<<"type">>] = JStr(<<w>>)

\* the event has a "delta" object whose "text" is a string
HasText(ev) ==
  /\ ev.t = "obj"
  /\ <<"delta">> \in DOMAIN ev.v
  /\ ev.v[<<"delta">>].t = "obj"
  /\ <<"text">> \in DOMAIN ev.v[<<"delta">>].v
  /\ ev.v[<<"delta">>].v[<<"text">>].t = "str"

\* C9: the streaming Inbound Mapper maps message_start to the delta
\* {role: "assistant"} without finish reason, a content_block_delta with a
\* text to the delta {content: text} without finish reason, message_stop to
\* the empty delta with finish_reason "stop", and anything else to no chunk;
\* no chunk has an empty delta and no finish reason; the envelope of
\* {"type":"message_stop"} gives the chunk with empty delta and "stop".
C9_StreamingMapper ==
  mpc = "mapped" /\ chunk.some =>
    /\ TypeIs(chunk.val, "message_start") =>
         openai_chunk = Some(StreamChunk("claude-via-bedrock",
           [k \in {<<"role">>} |-> JStr(<<"assistant">>)], NoFinish))
    /\ TypeIs(chunk.val, "content_block_delta") /\ HasText(chunk.val) =>
         openai_chunk = Some(StreamChunk("claude-via-bedrock",
           [k \in {<<"content">>} |-> chunk.val.v[<<"delta">>].v[<<"text">>]], NoFinish))
    /\ TypeIs(chunk.val, "message_stop") =>
         openai_chunk = Some(StreamChunk("claude-via-bedrock", EmptyMap, "stop"))
    /\ ~TypeIs(chunk.val, "message_start") /\ ~TypeIs(chunk.val, "message_stop")
         /\ ~(TypeIs(chunk.val, "content_block_delta") /\ HasText(chunk.val)) =>
         ~openai_chunk.some
    /\ openai_chunk.some =>
         ~(openai_chunk.val.delta = EmptyMap /\ openai_chunk.val.finish_reason = NoFinish)
    /\ mfrag = <<Env(TextStop)>> =>
         openai_chunk = Some(StreamChunk("claude-via-bedrock", EmptyMap, "stop"))

\* the event of the message_stop envelope has been mapped to a chunk
C9_Witness ==
  /\ mpc = "mapped" /\ mfrag = <<Env(TextStop)>> /\ chunk.some
  /\ openai_chunk.some /\ openai_chunk.val.finish_reason = "stop"

\* the request body is an object with a prompt member and no messages member
PromptWithoutMessages ==
  /\ payload.t = "obj"
  /\ <<"prompt">> \in DOMAIN payload.v
  /\ <<"messages">> \notin DOMAIN payload.v

\* max_tokens_to_sample of the request body, or 200
ExpectedMaxTokens ==
  IF <<"max_tokens_to_sample">> \in DOMAIN payload.v
    THEN payload.v[<<"max_tokens_to_sample">>] ELSE JNum("200")

\* the one-element messages array: role user, the prompt as content
ExpectedMessages ==
  JArr(<< JObj([k \in {<<"role">>, <<"content">>} |->
                 IF k = <<"role">> THEN JStr(<<"user">>) ELSE payload.v[<<"prompt">>]]) >>)

\* the Normalizer output has the messages and max_tokens of the claim
NormalizedAsClaimed ==
  /\ ~normalized.panic
  /\ normalized.val.t = "obj"
  /\ <<"messages">> \in DOMAIN normalized.val.v
  /\ normalized.val.v[<<"messages">>] = ExpectedMessages
  /\ <<"max_tokens">> \in DOMAIN normalized.val.v
  /\ normalized.val.v[<<"max_tokens">>] = ExpectedMaxTokens

\* C10 as stated: for every request with a prompt field and no messages field
\* the output has the one user message and the max_tokens.
C10_AnyPrompt == npc = "done" /\ PromptWithoutMessages => NormalizedAsClaimed

\* C10 amended: for every request whose prompt field is a string and that has
\* no messages field, the output is exactly the object of the one user
\* message, max_tokens (max_tokens_to_sample or 200) and anthropic_version.
C10_StringPrompt ==
  npc = "done" /\ PromptWithoutMessages /\ payload.v[<<"prompt">>].t = "str" =>
    /\ NormalizedAsClaimed
    /\ DOMAIN normalized.val.v = {<<"messages">>, <<"max_tokens">>, <<"anthropic_version">>}
    /\ normalized.val.v[<<"anthropic_version">>] = JStr(<<"bedrock-2023-05-31">>)

\* {"prompt":"hi","max_tokens_to_sample":50} has been normalized
C10_Witness ==
  /\ npc = "done"
  /\ payload = JObj([k \in {<<"prompt">>, <<"max_tokens_to_sample">>} |->
                      IF k = <<"prompt">> THEN JStr(<<"hi">>) ELSE JNum("50")])
  /\ normalized.val.v[<<"max_tokens">>] = JNum("50")
  /\ normalized.val.v[<<"messages">>].v[1].v[<<"content">>] = JStr(<<"hi">>)

\* C11 as stated: for every JSON request body (object, array, scalar or null)
\* the Normalizer returns, without aborting the request, a payload whose
\* anthropic_version is "bedrock-2023-05-31".
C11_NormalizerNeverFails ==
  npc = "done" =>
    /\ ~normalized.panic
    /\ Get(normalized.val, "anthropic_version") = Some(JStr(<<"bedrock-2023-05-31">>))

\* the system messages of the chat request, in their order
SystemMessages == SelectSeq(openai_req.messages, LAMBDA m : m.role = "system")

\* the contents of the system messages that carry one, as text: a string as it
\* is, a structured content in its serialized form
SystemContents ==
  LET carrying == SelectSeq(SystemMessages, LAMBDA m : m.content.some)
  IN  [i \in 1..Len(carrying) |->
         IF carrying[i].content.val.t = "str" THEN carrying[i].content.val.v
         ELSE to_string(carrying[i].content.val)]

RECURSIVE JoinedByBlankLine(_, _)
\* the first n texts, a blank line between two neighbours
JoinedByBlankLine(texts, n) ==
  IF n = 0 THEN <<>>
  ELSE IF n = 1 THEN texts[1]
  ELSE JoinedByBlankLine(texts, n - 1) \o <<"\\n\\n">> \o texts[n]

\* the backend messages array holds no entry of role system
NoSystemEntry ==
  \A i \in 1..Len(bedrock_payload.v[<<"messages">>].v) :
    bedrock_payload.v[<<"messages">>].v[i].v[<<"role">>] # JStr(<<"system">>)

\* C12 as stated: once the Outbound Mapper has run, the messages array has no
\* system entry; with one or more system messages the system field is their
\* contents joined by a blank line in order; with none it is absent.
C12_SystemMerged ==
  cpc = "outbound" =>
    /\ NoSystemEntry
    /\ IF SystemMessages # <<>>
         THEN Get(bedrock_payload, "system")
                = Some(JStr(JoinedByBlankLine(SystemContents, Len(SystemContents))))
       ELSE ~Has(bedrock_payload, "system")

\* C12 amended: the messages array has no system entry; when some system
\* message carries a content the system field is the contents of the system
\* messages that carry one, joined by a blank line in order; when none does
\* (in particular without a system message) the system field is absent.
C12_SystemContentsMerged ==
  cpc = "outbound" =>
    /\ NoSystemEntry
    /\ IF SystemContents # <<>>
         THEN Get(bedrock_payload, "system")
                = Some(JStr(JoinedByBlankLine(SystemContents, Len(SystemContents))))
       ELSE ~Has(bedrock_payload, "system")

\* two system messages around a user message have been merged
C12_Witness ==
  /\ cpc = "outbound"
  /\ Len(openai_req.messages) = 3
  /\ openai_req.messages[1] = OpenAIMessage("system", TextContent("be brief"),
                                            NoToolCalls, NoString)
  /\ openai_req.messages[2].role = "user"
  /\ openai_req.messages[3] = OpenAIMessage("system", TextContent("no jokes"),
                                            NoToolCalls, NoString)
  /\ Get(bedrock_payload, "system") = Some(JStr(<<"be brief", "\\n\\n", "no jokes">>))
  /\ Len(bedrock_payload.v[<<"messages">>].v) = 1

\* the data a tool call's arguments denote: a JSON string denotes the value it
\* parses to, a structured value denotes itself
ArgumentsData(arguments) ==
  IF arguments.t = "str" THEN FromStr(arguments.v) ELSE Some(arguments)

\* an embedded tool call as [id, name, data]
CallOfEntry(tc) ==
  LET func == ValueOr(Get(tc, "function"), JObj(EmptyMap))
  IN  [id |-> AsStr(Get(tc, "id")).val,
       name |-> AsStr(Get(func, "name")).val,
       data |-> IF Has(func, "arguments")
                  THEN ArgumentsData(Get(func, "arguments").val) ELSE None]

\* the tool calls an assistant message carries, each as [id, name, data]: those
\* of its tool_calls field, or those embedded in its content
CallsOfMessage(m) ==
  IF m.role # "assistant" THEN <<>>
  ELSE IF m.tool_calls.some
    THEN [i \in 1..Len(m.tool_calls.val) |->
            [id |-> m.tool_calls.val[i].id,
             name |-> m.tool_calls.val[i].function.name,
             data |-> FromStr(m.tool_calls.val[i].function.arguments)]]
  ELSE IF m.content.some /\ AsArray(Get(m.content.val, "tool_calls")).some
    THEN LET embedded == Get(m.content.val, "tool_calls").val.v
         IN  [i \in 1..Len(embedded) |-> CallOfEntry(embedded[i])]
  ELSE <<>>

RECURSIVE CallsOfMessages(_)
\* the tool calls of the assistant messages of a request, in order
CallsOfMessages(messages) ==
  IF messages = <<>> THEN <<>>
  ELSE CallsOfMessage(Head(messages)) \o CallsOfMessages(Tail(messages))

\* the tool calls of the client response, <<>> without any
ResponseCalls ==
  IF openai_response.message.tool_calls.some
    THEN openai_response.message.tool_calls.val ELSE <<>>

\* C13 as stated: when the request's assistant messages carry N >= 1 tool calls
\* and the backend answers with the tool_use blocks the Outbound Mapper
\* produced, the Inbound Mapper's response has N tool calls with the same ids
\* and names, and arguments that denote the same data as the original ones.
C13_ToolCallRoundTrip ==
  cpc = "done" /\ bedrock_response = EchoResponse(bedrock_payload)
    /\ CallsOfMessages(openai_req.messages) # <<>> =>
      LET original == CallsOfMessages(openai_req.messages)
      IN  /\ Len(ResponseCalls) = Len(original)
          /\ \A i \in 1..Len(original) :
               /\ ResponseCalls[i].id = original[i].id
               /\ ResponseCalls[i].function.name = original[i].name
               /\ FromStr(ResponseCalls[i].function.arguments) = original[i].data

\* a request served by a non-streaming handler has been answered
OnceAnswered == handler \in OnceHandlers /\ pc = "end"

\* the value each JSON body of the backend denotes; the other bodies are no JSON
JsonBodies == {TextAnswer, TextStop}

BodyJson(text) ==
  IF text = TextAnswer
    THEN JObj(MapInsert(EmptyMap, "content",
           JArr(<< JObj(MapInsert(MapInsert(EmptyMap, "type", JStr(<<"text">>)),
                                  "text", JStr(<<"hi">>))) >>)))
  ELSE JObj(MapInsert(EmptyMap, "type", JStr(<<"message_stop">>)))

\* the response is the backend's status with the backend's body as its text
Verbatim == response.kind = "text" /\ response.status = status /\ response.text = body.text

\* the response is a JSON document: the parsed body in the raw handler, the
\* mapped chat completion in the chat handler
JsonOfBody ==
  /\ response.kind = "json"
  /\ handler = "invoke_once" => response.value = BodyJson(body.text)
  /\ handler = "chat_once" =>
       /\ response.mapped.object = "chat.completion"
       /\ response.mapped.model = <<model>>
       /\ response.mapped.message.role = "assistant"

\* C14: in the non-streaming handlers, after the backend's body was read: a
\* non-success status is returned with the same status and the body verbatim;
\* a success status with a body that is no JSON is returned as status and text;
\* a JSON response is returned only for a success status with a JSON body.
C14_StatusAndBodyForwarded ==
  OnceAnswered =>
    /\ body.ok /\ ~IsSuccess(status) => Verbatim
    /\ body.ok /\ IsSuccess(status) /\ body.text \notin JsonBodies => Verbatim
    /\ body.ok /\ IsSuccess(status) /\ body.text \in JsonBodies => JsonOfBody
    /\ response.kind = "json" => body.ok /\ IsSuccess(status) /\ body.text \in JsonBodies

\* the chat handler has mapped the 200 answer {"content":[{"type":"text",..}]}
C14_Witness ==
  /\ OnceAnswered
  /\ handler = "chat_once"
  /\ status = 200
  /\ body = [ok |-> TRUE, text |-> TextAnswer]
  /\ response.kind = "json"
  /\ response.mapped.message.content = Some(JStr(<<"hi">>))

\* the request failed in signing, in the backend call, or in reading the body
SigningFailed == signed = "failed"

CallFailed == signed = "ok" /\ calls = 1 /\ status = 0

ReadFailed == status # 0 /\ ~body.ok

\* C15: in the non-streaming handlers a signing failure, a failed backend call
\* or a failed read of the body yields one response, of status 500 with a text
\* message and never a JSON document; after a signing failure no backend call
\* was made; a response once returned is never replaced.
C15_FailureIsServerError ==
  /\ [](OnceAnswered /\ (SigningFailed \/ CallFailed \/ ReadFailed) =>
          /\ response.status = 500
          /\ response.kind = "text"
          /\ response.text # <<>>)
  /\ [](handler \in OnceHandlers /\ SigningFailed => calls = 0 /\ pc = "end")
  /\ [][response # NoReply => response' = response]_vars

\* the raw handler answers 500 after the body of a 200 answer could not be read
C15_Witness ==
  /\ OnceAnswered
  /\ handler = "invoke_once"
  /\ status = 200
  /\ ReadFailed
  /\ response = TextReply(500, <<"Failed to read response">>)

\* C16: a request, streaming or not, makes at most one backend call: none
\* unless signing succeeded, exactly one once a request whose signing succeeded
\* has run to its end, and a call is only ever the first one.
C16_OneBackendCall ==
  /\ [](calls <= 1)
  /\ [](signed # "ok" => calls = 0)
  /\ [](pc = "end" /\ signed = "ok" => calls = 1)
  /\ [][calls' # calls => calls = 0 /\ calls' = 1 /\ signed = "ok"]_vars

\* a chat request has ended after its one backend call failed
C16_Witness ==
  /\ pc = "end"
  /\ handler = "chat"
  /\ calls = 1
  /\ status = 0
  /\ events = <<RequestErrorEvent, DoneEvent>>

\* the names of a header list, and the values a name has in it
HeaderNames(headers) == {headers[i][1] : i \in 1..Len(headers)}

HeaderValues(headers, name) ==
  {headers[i][2] : i \in {j \in 1..Len(headers) : headers[j][1] = name}}

\* the accept value of a call: the event-stream media type for the streaming
\* handlers, application/json for the others
ExpectedAccept ==
  IF caller \in {"chat", "invoke", "raw"} THEN <<"application/vnd.amazon.eventstream">>
  ELSE <<"application/json">>

\* C17: for every request sign_request builds, the headers it hands to the
\* signer are exactly content-type, host and accept, each once; the accept
\* value signed is the accept value sent, the event-stream media type when
\* is_streaming and application/json otherwise; the body sent is the body signed.
C17_SignedWhatIsSent ==
  spc = "signed" =>
    /\ HeaderNames(signing.signature.headers) = {"content-type", "host", "accept"}
    /\ Len(signing.signature.headers) = 3
    /\ HeaderValues(signing.signature.headers, "accept") = {ExpectedAccept}
    /\ HeaderValues(signing.request.headers, "accept") = {ExpectedAccept}
    /\ signing.request.body = signing.signature.body
    /\ signing.request.body = http_req.body

\* the streaming chat handler's request has been signed
C17_Witness ==
  /\ spc = "signed"
  /\ caller = "chat"
  /\ http_req.body # <<>>
  /\ HeaderValues(signing.request.headers, "accept")
       = {<<"application/vnd.amazon.eventstream">>}
  /\ "authorization" \in HeaderNames(signing.request.headers)

RECURSIVE EventsOfReads(_, _, _)
EventsOfReads(h, rs, n) ==
  IF n = 0 THEN <<>>
  ELSE EventsOfReads(h, rs, n - 1) \o FragmentEvents(h, FragmentBytes(rs[n]), n)

DoneIf(cond) == IF cond THEN <<DoneEvent>> ELSE <<>>

\* the events of a 2xx stream that forwarded the events chunks and is at p
StreamedAlone(r, chunks, failed) ==
  chunks
    \o (IF failed THEN <<StreamErrorEvent>> ELSE <<>>)
    \o (IF r.pc \in {"stream", "after_loop"} THEN <<>>
        ELSE PlaceholderEvents(r.handler, chunks # <<>>, r.model))
    \o DoneIf(r.pc = "end" /\ r.handler # "raw")

\* the events a request receives when it runs alone, given what the backend
\* did to it: the outcome of signing, of the call, the status, the drained
\* body, the fragments read, and whether the stream failed
EventsAlone(r, failed) ==
  IF r.signed = "failed" THEN <<SigningErrorEvent>>
  ELSE IF r.calls = 0 THEN <<>>
  ELSE IF r.status = 0
    THEN <<RequestErrorEvent>> \o DoneIf(r.handler = "chat" /\ r.pc = "end")
  ELSE IF ~IsSuccess(r.status)
    THEN IF r.pc = "drain" THEN <<>>
         ELSE StatusErrorEvents(r.handler, r.status, r.body)
                \o DoneIf(r.handler = "chat" /\ r.pc = "end")
  ELSE StreamedAlone(r, EventsOfReads(r.handler, r.reads, Len(r.reads)), failed)

AsAlone(r) ==
  \E failed \in BOOLEAN :
    /\ r.pc = "stream" => ~failed
    /\ r.events = EventsAlone(r, failed)

\* C19: no step of either request changes the shared AppState, and under
\* every interleaving each of the two requests has received exactly the
\* events it receives when it runs alone against the same backend behaviour.
C19_RequestsIsolated ==
  /\ [][app' = app]_vars
  /\ [](AsAlone(Running) /\ AsAlone(other))

\* both requests are in the middle of their streams: the running one has
\* forwarded a chunk, the parked one has read a fragment without a chunk
C19_Witness ==
  /\ handler = "chat" /\ pc = "stream" /\ Len(reads) = 1 /\ sent_first
  /\ other # NoOther
  /\ other.handler = "chat" /\ other.pc = "stream"
  /\ Len(other.reads) = 1 /\ ~other.sent_first

\* a single request receives the events of EventsAlone
SingleAsAlone == handler \in Handlers => AsAlone(Running)

\* the events emitted for the n-th read
EventsFrom(evs, n) == SelectSeq(evs, LAMBDA e : e.src = n)

\* an envelope that is forwarded when it arrives whole, and its two parts
SplitEnvelope == Envelope(TextStop)

FirstPart == <<Raw(SubSeq(SplitEnvelope, 1, 5))>>

SecondPart == <<Raw(SubSeq(SplitEnvelope, 6, 9))>>

\* the n-th and the next read are the two parts of the split envelope
SplitAt(rs, n) == n + 1 <= Len(rs) /\ rs[n] = FirstPart /\ rs[n + 1] = SecondPart

ExtractedFrom(frag) ==
  extract_json_from_bedrock_chunk(FromUtf8Lossy(FragmentBytes(frag)))

\* C20: the events emitted for a fragment are those of that fragment alone,
\* whatever was read before it; and when an envelope arrives split across two
\* consecutive reads, the Frame Extractor finds no object in either part and
\* no chunk is forwarded for either read.
C20_ExtractorStateless ==
  /\ handler \in Handlers =>
       \A n \in 1..Len(reads) :
         EventsFrom(events, n) = FragmentEvents(handler, FragmentBytes(reads[n]), n)
  /\ handler \in {"chat", "invoke"} =>
       \A n \in 1..Len(reads) :
         SplitAt(reads, n) =>
           /\ ~ExtractedFrom(reads[n]).some
           /\ ~ExtractedFrom(reads[n + 1]).some
           /\ EventsFrom(events, n) = <<>>
           /\ EventsFrom(events, n + 1) = <<>>

\* the chat stream read the two parts one after the other and ended: the
\* client got the placeholder and [DONE], although the whole envelope maps to
\* a chunk
C20_Witness ==
  /\ handler = "chat"
  /\ pc = "end"
  /\ reads = <<FirstPart, SecondPart>>
  /\ events = <<Placeholder(model), DoneEvent>>
  /\ ForwardedChunk(SplitEnvelope).some

\* pieces that are a whole candidate failing at one stage: the inner text is
\* no JSON, the bytes are no UTF-8, the object has no bytes member, the bytes
\* are no base64, the bytes member is no string
FailedCandidates ==
  { Env(TextNotJson), Env(TextBadUtf8), Raw(TextPing),
    Raw(<<"{">> \o Str("bytes") \o <<":">> \o Str("hi") \o <<"}">>),
    Raw(<<"{">> \o Str("bytes") \o <<":", "1", "}">>) }

\* a '{' that nothing in the fragment closes: the envelopes and the failed
\* candidates are balanced, and no piece is a lone '}'
Unclosed(ps, n) ==
  /\ ps[n] = Raw(<<"{">>)
  /\ \A k \in 1..Len(ps) : ps[k] # Raw(<<"}">>)

\* the piece at is a well-formed envelope that begins after failed candidates
AfterFailedCandidates(ps, at) ==
  /\ at \in 1..Len(ps)
  /\ WellFormed(ps[at])
  /\ \A n \in 1..(at - 1) :
       ps[n] \in FailedCandidates \/ ps[n] = Raw(<<"x">>) \/ Unclosed(ps, n)

\* C21: a well-formed envelope that begins after candidates that fail at any
\* stage, a '{' without a matching '}' included, is the event the Frame
\* Extractor returns.
C21_ScansPastFailedCandidates ==
  \A at \in 1..Len(pieces) :
    xpc = "done" /\ AfterFailedCandidates(pieces, at) =>
      xresult = Some(EventJson(pieces[at].text))

\* the same without a '{' that is never closed
ScansPastClosedCandidates ==
  \A at \in 1..Len(pieces) :
    /\ xpc = "done"
    /\ AfterFailedCandidates(pieces, at)
    /\ \A n \in 1..(at - 1) : ~Unclosed(pieces, n)
    => xresult = Some(EventJson(pieces[at].text))

\* The reference rule of the scanner, read off character by character: what
\* is known after a character is whether the text is inside a string, whether
\* the character is an unescaped '\' (one that escapes the next character),
\* the depth, and whether the depth has come back to 0.
RuleState(in_string, escaping, depth, closed) ==
  [in_string |-> in_string, escaping |-> escaping, depth |-> depth, closed |-> closed]

\* the rule on the character c after the state before: anywhere says whether
\* a '\' outside a string escapes too
RuleStep(before, c, anywhere) ==
  IF before.escaping
    THEN RuleState(before.in_string, FALSE,
           IF anywhere /\ ~before.in_string
             THEN (IF c = "{" THEN before.depth + 1
                   ELSE IF c = "}" THEN before.depth - 1 ELSE before.depth)
           ELSE before.depth,
           anywhere /\ ~before.in_string /\ c = "}" /\ before.depth = 1)
  ELSE IF c = "\\" THEN
    RuleState(before.in_string, anywhere \/ before.in_string, before.depth, FALSE)
  ELSE IF c = "\"" THEN RuleState(~before.in_string, FALSE, before.depth, FALSE)
  ELSE IF before.in_string THEN RuleState(TRUE, FALSE, before.depth, FALSE)
  ELSE IF c = "{" THEN RuleState(FALSE, FALSE, before.depth + 1, FALSE)
  ELSE IF c = "}" THEN RuleState(FALSE, FALSE, before.depth - 1, before.depth = 1)
  ELSE RuleState(FALSE, FALSE, before.depth, FALSE)

RECURSIVE RuleEnd(_, _, _, _), RuleEndAfter(_, _, _, _)
\* the offset after the first '}' that brings the depth back to 0 from the
\* character at offset at on, -1 when there is none
RuleEnd(text, at, before, anywhere) ==
  IF at >= Len(text) THEN -1
  ELSE RuleEndAfter(text, at, RuleStep(before, text[at + 1], anywhere), anywhere)

RuleEndAfter(text, at, after, anywhere) ==
  IF after.closed THEN at + 1 ELSE RuleEnd(text, at + 1, after, anywhere)

\* the offsets of the candidate starts of a text
CandidateStarts(text) == {k \in 0..(Len(text) - 1) : text[k + 1] = "{"}

\* the scanner agrees with the rule at every candidate start of the fragment
\* the extractor has run on
ScannerFollows(anywhere) ==
  \A k \in CandidateStarts(chunk_text) :
    xpc = "done" =>
    ScanEnd(chunk_text, k, 0, 0, FALSE, FALSE)
      = RuleEnd(chunk_text, k, RuleState(FALSE, FALSE, 0, FALSE), anywhere)

\* C22, as claimed: the closing position found by the scanner is that of the
\* rule in which a '"' is escaped by a preceding unescaped '\' inside a
\* string and outside of one alike.
C22_ScannerFollowsRule == ScannerFollows(TRUE)

\* C22, amended: the closing position found by the scanner is that of the
\* rule in which a '\' escapes the next character inside a string only.
C22_ScannerFollowsStringRule == ScannerFollows(FALSE)

\* a scanned fragment whose first candidate has a '\' before a '"' outside a
\* string: the scanner takes the '"' as the start of a string and finds no end
C22_Witness ==
  /\ xpc = "done"
  /\ Len(pieces) >= 1
  /\ pieces[1] = Raw(<<"{", "\\", Q, "}">>)
  /\ ScanEnd(chunk_text, 0, 0, 0, FALSE, FALSE) = -1

\* the messages of the request that are not system messages, and the messages
\* of the backend payload
KeptMessages == SelectSeq(openai_req.messages, NotSystem)

PayloadMessages == AsArray(Get(bedrock_payload, "messages")).val

\* an assistant message that carries tool calls, in its tool_calls field or
\* embedded in its content
CarriesCalls(m) ==
  /\ m.role = "assistant"
  /\ m.tool_calls.some \/ (m.content.some /\ Has(m.content.val, "tool_calls"))

\* the input of a tool_use block as claimed: the arguments parsed when they
\* are a JSON string, {} when they do not parse or are missing, and the
\* arguments themselves when they are structured already
ClaimedInput(arguments) ==
  IF ~arguments.some THEN JObj(EmptyMap)
  ELSE IF arguments.val.t = "str"
    THEN ValueOr(FromStr(arguments.val.v), JObj(EmptyMap))
  ELSE arguments.val

ClaimedBlock(id, name, arguments) ==
  JObj(MapInsert(
    Object3("type", JStr(<<"tool_use">>),
            "id", JStr(StrOr(id, <<"tool_call_1">>)),
            "name", JStr(StrOr(name, <<"unknown_tool">>))).v,
    "input", ClaimedInput(arguments)))

ClaimedBlockOfEntry(tc, func) ==
  ClaimedBlock(AsStr(Get(tc, "id")), AsStr(Get(func, "name")), Get(func, "arguments"))

\* the tool_use blocks claimed for an assistant message that carries calls
ClaimedBlocks(m) ==
  IF m.tool_calls.some
    THEN [i \in 1..Len(m.tool_calls.val) |->
            ClaimedBlock(SomeString(m.tool_calls.val[i].id),
                         SomeString(m.tool_calls.val[i].function.name),
                         Some(JStr(m.tool_calls.val[i].function.arguments)))]
  ELSE LET embedded == AsArray(Get(m.content.val, "tool_calls")).val
       IN  [i \in 1..Len(embedded) |->
              ClaimedBlockOfEntry(embedded[i],
                                  ValueOr(Get(embedded[i], "function"), JObj(EmptyMap)))]

\* the backend message claimed for the j-th kept message
MappedAsClaimed(j) ==
  /\ j <= Len(PayloadMessages)
  /\ PayloadMessages[j]
       = Object2("role", JStr(<<"assistant">>),
                 "content", JArr(ClaimedBlocks(KeptMessages[j])))

\* C23: every assistant message that carries tool calls, in its tool_calls
\* field or embedded in its content, is mapped to the assistant message of the
\* tool_use blocks of its calls, in order, with id and name copied or replaced
\* by the placeholders, and input the arguments parsed to structured JSON, {}
\* when they do not parse.
C23_ToolCallsToBlocks ==
  cpc # "request" =>
    \A j \in 1..Len(KeptMessages) : CarriesCalls(KeptMessages[j]) => MappedAsClaimed(j)

\* arguments that need no parsing: structured, or missing
Structured(tc) ==
  LET func == ValueOr(Get(tc, "function"), JObj(EmptyMap))
  IN  ~AsStr(Get(func, "arguments")).some

AllStructured(entries) == \A i \in 1..Len(entries) : Structured(entries[i])

\* the same for the messages whose calls are embedded with structured arguments
EmbeddedStructuredToBlocks ==
  cpc # "request" =>
    \A j \in 1..Len(KeptMessages) :
      /\ CarriesCalls(KeptMessages[j])
      /\ ~KeptMessages[j].tool_calls.some
      /\ AllStructured(AsArray(Get(KeptMessages[j].content.val, "tool_calls")).val)
      => MappedAsClaimed(j)

\* the blocks of the content of a backend message, when it is a list
ContentBlocks(out) == AsArray(Get(out, "content"))

\* the one block of a backend message is the tool_result for the id
OneToolResult(out, id) ==
  /\ ContentBlocks(out).some
  /\ Len(ContentBlocks(out).val) = 1
  /\ Get(ContentBlocks(out).val[1], "type") = Some(JStr(<<"tool_result">>))
  /\ Get(ContentBlocks(out).val[1], "tool_use_id") = Some(JStr(id))

\* C24: every message of role tool is mapped to one backend message of role
\* user whose content is a list of one tool_result block, with tool_use_id the
\* message's tool_call_id, or "tool_call_1" when the message has none.
C24_ToolBecomesUserResult ==
  cpc # "request" =>
    /\ Len(PayloadMessages) = Len(KeptMessages)
    /\ \A j \in 1..Len(KeptMessages) :
         KeptMessages[j].role = "tool" =>
           /\ Get(PayloadMessages[j], "role") = Some(JStr(<<"user">>))
           /\ OneToolResult(PayloadMessages[j],
                            IF KeptMessages[j].tool_call_id.some
                              THEN KeptMessages[j].tool_call_id.val
                            ELSE <<"tool_call_1">>)

\* a request with a tool message that has an id and one that has none was mapped
C24_Witness ==
  /\ cpc = "outbound"
  /\ Len(KeptMessages) = 2
  /\ KeptMessages[1].role = "tool" /\ KeptMessages[1].tool_call_id.some
  /\ KeptMessages[2].role = "tool" /\ ~KeptMessages[2].tool_call_id.some
  /\ OneToolResult(PayloadMessages[2], <<"tool_call_1">>)

\* a message whose role and content are passed on as they are
PassedThrough(m) == m.role # "tool" /\ ~CarriesCalls(m)

\* one backend message per kept message, in order, the roles in place
OnePerMessage ==
  /\ Len(PayloadMessages) = Len(KeptMessages)
  /\ \A j \in 1..Len(KeptMessages) :
       /\ Get(PayloadMessages[j], "role")
            = Some(JStr(<<IF KeptMessages[j].role = "tool" THEN "user"
                          ELSE KeptMessages[j].role>>))
       /\ Has(PayloadMessages[j], "content")
       /\ PassedThrough(KeptMessages[j]) /\ KeptMessages[j].content.some =>
            Get(PayloadMessages[j], "content") = KeptMessages[j].content

\* the content of the backend message of a message without content is ""
EmptyForMissing(j) ==
  ~KeptMessages[j].content.some => Get(PayloadMessages[j], "content") = Some(JStr(<<>>))

\* C25, as claimed: one backend message per non-system message, in order;
\* role and content copied for the roles passed through; every backend
\* message has a content, the empty string when the input has none.
C25_OneMessageEach ==
  cpc # "request" =>
    /\ OnePerMessage
    /\ \A j \in 1..Len(KeptMessages) : EmptyForMissing(j)

\* C25, amended: the same, where for a tool message without content it is
\* the content of its tool_result block that is the empty string.
C25_OneMessageEachToolResult ==
  cpc # "request" =>
    /\ OnePerMessage
    /\ \A j \in 1..Len(KeptMessages) :
         IF KeptMessages[j].role = "tool"
           THEN /\ ContentBlocks(PayloadMessages[j]).some
                /\ Len(ContentBlocks(PayloadMessages[j]).val) = 1
                /\ ~KeptMessages[j].content.some =>
                     Get(ContentBlocks(PayloadMessages[j]).val[1], "content")
                       = Some(JStr(<<>>))
         ELSE EmptyForMissing(j)

\* system, user without content, assistant text, tool without content: three
\* backend messages, the first with the empty string as content
C25_Witness ==
  /\ cpc = "outbound"
  /\ Len(openai_req.messages) = 3
  /\ openai_req.messages[1].role = "system"
  /\ openai_req.messages[2] = OpenAIMessage("user", None, NoToolCalls, NoString)
  /\ openai_req.messages[3] = OpenAIMessage("tool", None, NoToolCalls, NoString)
  /\ Len(PayloadMessages) = 2
  /\ PayloadMessages[1] = Object2("role", JStr(<<"user">>), "content", JStr(<<>>))

\* the keys of a value: those of an object, none of anything else
KeysOf(val) == IF val.t = "obj" THEN DOMAIN val.v ELSE {}

\* the keys the Normalizer may touch
TouchedKeys == {<<"max_tokens">>, <<"max_tokens_to_sample">>, <<"anthropic_version">>}

\* max_tokens_to_sample is to be renamed: present, and max_tokens absent
ToRename(val) == Has(val, "max_tokens_to_sample") /\ ~Has(val, "max_tokens")

\* C26: for a request body without a string prompt, when
\* max_tokens_to_sample is present and max_tokens absent the output has
\* max_tokens with the value of max_tokens_to_sample and no
\* max_tokens_to_sample; otherwise both keys are as in the input; and every
\* key other than these two and anthropic_version is as in the input.
C26_RenameOnly ==
  npc = "done" /\ ~AsStr(Get(payload, "prompt")).some =>
    /\ ToRename(payload) =>
         /\ Get(normalized.val, "max_tokens") = Get(payload, "max_tokens_to_sample")
         /\ ~Has(normalized.val, "max_tokens_to_sample")
    /\ ~ToRename(payload) =>
         /\ Get(normalized.val, "max_tokens") = Get(payload, "max_tokens")
         /\ Get(normalized.val, "max_tokens_to_sample")
              = Get(payload, "max_tokens_to_sample")
    /\ KeysOf(normalized.val) \ TouchedKeys = KeysOf(payload) \ TouchedKeys
    /\ \A k \in KeysOf(payload) \ TouchedKeys : normalized.val.v[k] = payload.v[k]

\* {"prompt":7,"max_tokens_to_sample":50,"temperature":1} has been normalized
C26_Witness ==
  /\ npc = "done"
  /\ ~normalized.panic
  /\ KeysOf(payload) = {<<"prompt">>, <<"max_tokens_to_sample">>, <<"temperature">>}
  /\ payload.v[<<"prompt">>] = JNum("7")
  /\ payload.v[<<"max_tokens_to_sample">>] = JNum("50")
  /\ KeysOf(normalized.val)
       = {<<"prompt">>, <<"max_tokens">>, <<"temperature">>, <<"anthropic_version">>}
  /\ normalized.val.v[<<"max_tokens">>] = JNum("50")

\* the content blocks of the backend's answer
AnswerBlocks == AsArray(Get(bedrock_response, "content")).val

\* the blocks of BackendResponse: a text block has a text, a tool_use block
\* an id, a name and a structured input
TextBlockAt(i) ==
  /\ Get(AnswerBlocks[i], "type") = Some(JStr(<<"text">>))
  /\ AsStr(Get(AnswerBlocks[i], "text")).some

ToolUseAt(i) ==
  /\ Get(AnswerBlocks[i], "type") = Some(JStr(<<"tool_use">>))
  /\ AsStr(Get(AnswerBlocks[i], "id")).some
  /\ AsStr(Get(AnswerBlocks[i], "name")).some
  /\ Has(AnswerBlocks[i], "input")

TextBlocksAt == {i \in 1..Len(AnswerBlocks) : TextBlockAt(i)}

ToolUsesAt == {i \in 1..Len(AnswerBlocks) : ToolUseAt(i)}

\* the i-th text block is the last one
LastTextAt(i) == i \in TextBlocksAt /\ \A k \in TextBlocksAt : k <= i

\* C27: the message content of the response is the text of the last text
\* block of the answer, and absent when the answer has no text block.
C27_LastTextWins ==
  cpc = "done" =>
    /\ TextBlocksAt = {} => ~openai_response.message.content.some
    /\ \A i \in 1..Len(AnswerBlocks) :
         LastTextAt(i) =>
           openai_response.message.content = Get(AnswerBlocks[i], "text")

\* text "one", a tool_use block, text "two": the content is "two"
C27_Witness ==
  /\ cpc = "done"
  /\ AnswerBlocks = <<TextBlock("one"), ToolUse("c1", "f", ArgsValue), TextBlock("two")>>
  /\ openai_response.message.content = Some(JStr(<<"two">>))

\* the position of the n-th tool_use block of the answer
NthToolUse(n) ==
  CHOOSE i \in ToolUsesAt : Cardinality({k \in ToolUsesAt : k <= i}) = n

\* C28: the response has one tool call per tool_use block of the answer, in
\* the same order, each of type "function" with the block's id and name and
\* with arguments the JSON text of the block's input.
C28_OneCallPerToolUse ==
  cpc = "done" =>
    /\ Len(ResponseCalls) = Cardinality(ToolUsesAt)
    /\ \A n \in 1..Len(ResponseCalls) :
         /\ ResponseCalls[n].type = "function"
         /\ JStr(ResponseCalls[n].id) = AnswerBlocks[NthToolUse(n)].v[<<"id">>]
         /\ JStr(ResponseCalls[n].function.name) = AnswerBlocks[NthToolUse(n)].v[<<"name">>]
         /\ FromStr(ResponseCalls[n].function.arguments)
              = Get(AnswerBlocks[NthToolUse(n)], "input")
         /\ AnswerBlocks[NthToolUse(n)].v[<<"input">>] = ArgsValue =>
              ResponseCalls[n].function.arguments = ArgsText

\* two tool_use blocks around a text block: two calls, in the blocks' order
C28_Witness ==
  /\ cpc = "done"
  /\ AnswerBlocks = << ToolUse("c2", "g", JObj(EmptyMap)), TextBlock("one"),
                       ToolUse("c1", "f", ArgsValue) >>
  /\ Len(ResponseCalls) = 2
  /\ ResponseCalls[1].id = <<"c2">>
  /\ ResponseCalls[2].function.arguments = ArgsText

\* C29: finish_reason is "tool_calls" when the answer has a tool_use block
\* and "stop" otherwise.
C29_FinishReason ==
  cpc = "done" =>
    openai_response.finish_reason = IF ToolUsesAt # {} THEN "tool_calls" ELSE "stop"

\* a text block followed by a tool_use block: "tool_calls"
C29_Witness ==
  /\ cpc = "done"
  /\ AnswerBlocks = <<TextBlock("one"), ToolUse("c1", "f", ArgsValue)>>
  /\ openai_response.finish_reason = "tool_calls"

\* an i32 as the 64-bit integer of the same value
Extend32(a) ==
  IF Negative32(a) THEN <<a[1], a[2], 65535, 65535>> ELSE <<a[1], a[2], 0, 0>>

\* the sum of two 64-bit integers that are small enough not to overflow
Add64(x, y) ==
  LET c1 == (x[1] + y[1]) \div 65536
      c2 == (x[2] + y[2] + c1) \div 65536
      c3 == (x[3] + y[3] + c2) \div 65536
  IN  << (x[1] + y[1]) % 65536, (x[2] + y[2] + c1) % 65536,
         (x[3] + y[3] + c2) % 65536, (x[4] + y[4] + c3) % 65536 >>

\* the count the backend reports under key, 0 when it reports none
Reported(key) == I64Or0(as_i64(GetIn(Get(bedrock_response, "usage"), key)))

UsageAsReported ==
  /\ Extend32(openai_response.usage.prompt_tokens) = Reported("input_tokens")
  /\ Extend32(openai_response.usage.completion_tokens) = Reported("output_tokens")
  /\ Extend32(openai_response.usage.total_tokens)
       = Add64(Reported("input_tokens"), Reported("output_tokens"))

\* C30: for every pair of token counts the backend reports, the mapper gives
\* a response, whose prompt_tokens and completion_tokens are the reported
\* input_tokens and output_tokens (0 when absent) and whose total_tokens is
\* their sum.
C30_UsageAsReported ==
  /\ cpc # "panicked"
  /\ cpc = "done" => UsageAsReported

\* a count, or a sum of counts, fits i32
Fits32(x) == x[3] = 0 /\ x[4] = 0 /\ x[2] < 32768

\* the same for counts that fit i32 and whose sum fits
SmallUsageAsReported ==
  /\ Fits32(Reported("input_tokens"))
  /\ Fits32(Reported("output_tokens"))
  /\ Fits32(Add64(Reported("input_tokens"), Reported("output_tokens")))
  => C30_UsageAsReported


\* the positions of the Stream error event among the events evs
StreamErrorsAt(evs) == {i \in 1..Len(evs) : evs[i] = StreamErrorEvent}

\* reading a fragment of the backend stream has failed
StreamFailed == handler \in Handlers /\ StreamErrorsAt(events) # {}

\* the events of a 2xx stream whose read failed after the fragments rs, once
\* the handler h has ended
EventsOfFailedStream(h, rs, m) ==
  EventsOfReads(h, rs, Len(rs))
    \o <<StreamErrorEvent>>
    \o PlaceholderEvents(h, EventsOfReads(h, rs, Len(rs)) # <<>>, m)
    \o <<DoneEvent>>

MatchedStart(text, idx) == FindBrace(text, idx)

MatchedEnd(text, idx) ==
  IF FindBrace(text, idx) = -1 THEN -1
  ELSE ScanEnd(text, FindBrace(text, idx), 0, 0, FALSE, FALSE)

\* the candidate text[a..e] lies within text, at or after idx, starts with
\* '{' and ends with '}'
CandidateWithin(text, idx, a, e) ==
  /\ idx <= a /\ a < e /\ e <= Len(text)
  /\ text[a + 1] = "{"
  /\ text[e] = "}"

\* the iteration of the outer loop entered with idx ends the call (no '{',
\* break, or return) or goes on with a start_idx that is strictly greater and
\* at most the length of the fragment
Progresses(text, idx, it) ==
  /\ it.kind \in {"exhausted", "break", "return", "continue"}
  /\ it.kind = "continue" => it.start_idx > idx /\ it.start_idx <= Len(text)

\* C32: extract_json_from_bedrock_chunk terminates on every fragment.
\* start_idx stays between 0 and the length of the fragment; the iteration
\* of the outer loop entered in any state the call reaches returns, breaks
\* or goes on with a strictly greater start_idx, again at most the length;
\* every step of the call is such an iteration: it ends the call or leaves
\* start_idx strictly greater, at the end of the matched candidate, with the
\* fragment unchanged (so the length minus start_idx bounds the number of
\* iterations left); the candidate matched in an iteration lies within the
\* fragment at or after start_idx, starts with '{' and ends with '}'; and a
\* call that has ended stays ended.
C32_ExtractTerminates ==
  /\ [](xpc \in {"scan", "done"} => 0 <= start_idx /\ start_idx <= Len(chunk_text))
  /\ [](xpc = "scan" =>
          Progresses(chunk_text, start_idx, ScanIteration(chunk_text, start_idx)))
  /\ [][xpc = "scan" =>
          /\ chunk_text' = chunk_text
          /\ \/ xpc' = "done" /\ start_idx' = start_idx
             \/ xpc' = "scan" /\ start_idx' > start_idx
                 /\ start_idx' = MatchedEnd(chunk_text, start_idx)]_vars
  /\ [](xpc = "scan" /\ MatchedEnd(chunk_text, start_idx) # -1 =>
          CandidateWithin(chunk_text, start_idx, MatchedStart(chunk_text, start_idx),
                          MatchedEnd(chunk_text, start_idx)))
  /\ [][xpc = "done" => xpc' = "done"]_vars

\* the call has returned an event after an iteration that matched a candidate
\* which did not decode and went on from its end
C32_Witness ==
  /\ xpc = "done" /\ xresult.some
  /\ start_idx > 0 /\ start_idx < Len(chunk_text)
  /\ chunk_text[start_idx] = "}"

====
